---------------------------- MODULE Spec2Model ----------------------------
(***************************************************************************)
(* Two-factor authentication of the repository, in these specifications.   *)
(*                                                                         *)
(*   Spec        AuthService (services/authService.ts): the user list and  *)
(*               the current user kept in localStorage, and signup, login, *)
(*               verify2FA, setup2FA, enable2FA, disable2FA and logout on  *)
(*               them, each call running to completion.                    *)
(*   SpecTabs    verify2FA and disable2FA run by several browser tabs on   *)
(*               one localStorage: each getItem and setItem of a call is   *)
(*               a step of its own.                                        *)
(*   SpecDemo    the hand-rolled TOTP of app/components/TwoFA.tsx and the  *)
(*               handlers of the demo route that use it.                   *)
(*   SpecBase32  base32Encode and base32Decode of TwoFA.tsx.               *)
(*   SpecTotp    the truncation of a digest to a code in generateTOTP.     *)
(*   SpecCounter the 8-byte message generateTOTP builds from the clock.    *)
(*   SpecErrors  wrong codes and failing computations, in AuthService and  *)
(*               in TwoFAUtils.verifyCode.                                 *)
(*   SpecContext AuthProvider (contexts/AuthContext.tsx) with the pages    *)
(*               AppContent and the Dashboard show, TwoFactorSetup         *)
(*               included, in one browser tab.                             *)
(*   SpecProvider the operations AuthProvider hands to its callers, run in *)
(*               any order a caller may use them, with no page in between. *)
(*   SpecUtils   TwoFAUtils of TwoFA.tsx on its own: saveSecret, disable   *)
(*               and verifyCode in any order.                              *)
(*                                                                         *)
(* The clock `now` is wall-clock time in seconds.  A one-time code is a    *)
(* function of the secret and the time counter floor(now / period); the    *)
(* keyed hash is not computed bit by bit: Hotp is a fixed deterministic    *)
(* stand-in with a small range, in which different (secret, counter)       *)
(* pairs may collide, as real 6-digit codes may.                           *)
(*                                                                         *)
(* authenticator.verify is the otplib call; it is modelled by the options  *)
(* each call site passes: the token is compared with the codes of the      *)
(* counters now-window .. now+window, and a call site that passes no       *)
(* window uses the library default of 0.                                   *)
(***************************************************************************)
EXTENDS Integers, Sequences, FiniteSets, TLC

\* ------------------------------------------------------------- bounds
\* The longest byte string that is encoded.
MaxBytes == 5
\* How many characters are inserted into a text before it is decoded.
MaxInserted == 1
\* Wall-clock seconds at the start of a run.
StartTime == 100
\* How many times the clock advances by one period in a run.
MaxTicks == 1
\* Number of distinct one-time codes (10^6 in the program).
NumCodes == 6
\* Number of distinct secrets.
NumSecrets == 2
\* Number of e-mail addresses that sign up.
NumEmails == 2
\* Length of a generated backup-code list (10 in the program).
BackupLen == 2
\* Number of browser tabs that share the localStorage.
NumTabs == 2

\* ---------------------------------------------------- program constants
\* TOTP period in seconds.
Period == 30
\* window: 2 of verify2FA and disable2FA.
VerifyWindow == 2
\* enable2FA passes no window: the library default.
EnableWindow == 0
\* Length in bytes of an HMAC-SHA1 digest.
DigestLength == 20
\* Number of digits of a code: padStart(6, '0').
CodeDigits == 6
\* The modulus of the truncation: % 1000000.
CodeModulus == 1000000

\* ------------------------------------------------------------- values
\* An optional value (a key that may be absent, or null): <<>> or <<v>>.
None == <<>>
Some(v) == <<v>>

Secrets == 1..NumSecrets
\* The empty string, given as a secret.
EmptySecret == 0
Emails == 1..NumEmails
Tabs == 1..NumTabs
\* One-time codes are 0 .. NumCodes-1 (strings of 6 digits); NumCodes stands
\* for a 6-character token that is no string of digits.
Tokens == 0..NumCodes
\* Backup codes are 6 characters of 0-9A-Z: one that is also a string of
\* digits, and one that is not.
BackupAlphabet == {1, NumCodes}
\* In the demo a code is typed into a field that keeps digits only: a
\* string of 6 digits, or ShortCode, a string of fewer than 6 digits (the
\* empty field included).
ShortCode == NumCodes + 1
DemoCodes == (0..(NumCodes - 1)) \cup {ShortCode}
\* code.length
CodeLength(code) == IF code = ShortCode THEN 0 ELSE 6
BackupCodeLists == [1..BackupLen -> BackupAlphabet]
\* The values the clock takes; Date.now().toString() of one of them is a
\* user id.
Times == {StartTime + k * Period : k \in 0..MaxTicks}

VARIABLES
    now,          \* wall clock, seconds
    users,        \* localStorage auth_users: sequence of User
    currentUser,  \* localStorage current_user: None or Some(User)
    last,         \* the most recent AuthService call and its result
    consumed,     \* history: <<id, code>> for every recovery code that
                  \* verify2FA consumed since the last successful enable2FA
                  \* of the account id
    disabled,     \* history: the ids whose 2FA a disable2FA switched off,
                  \* with no successful enable2FA since
    tabs,         \* per tab: the verify2FA or disable2FA call it runs, and
                  \* where it is
    twofa_secret,   \* localStorage twofa_secret: None or Some(secret)
    twofa_enabled,  \* localStorage twofa_enabled: None or Some("true")
    setupSecret,  \* TwoFASetup's secret while the dialog is shown, else None
    verificationCode,  \* TwoFASetup's input
    setupError,   \* TwoFASetup's error message
    showLogin,    \* TwoFADemo state: the TwoFALogin dialog is shown
    loginCode,    \* TwoFALogin's input
    loginError,   \* TwoFALogin's error message
    twoFAEnabled, \* TwoFADemo state
    isLoggedIn,   \* TwoFADemo state
    demoLast,     \* the most recent handler of the demo and its result
    buffer,       \* base32Encode's argument: a sequence of bytes
    encoded,      \* None, or Some(text) that base32Encode returned
    typed,        \* the text handed to base32Decode
    decoded,      \* None, or Some(bytes) that base32Decode returned
    hmac,         \* the HMAC-SHA1 digest in generateTOTP
    totp,         \* None, or Some(text) that generateTOTP returned
    clock,        \* Date.now() in whole seconds, as 16-bit limbs
    timeBuffer,   \* None, or Some(bytes): the 8-byte message of generateTOTP
    authState,    \* AuthProvider's state
    show2FASetup, \* Dashboard state: the TwoFactorSetup page is shown
    setupData,    \* TwoFactorSetup's setupData: None or Some(data)
    setupMessage, \* TwoFactorSetup's message.text
    rejected      \* history: None, or Some(<<id, secret, backupCodes>>), the
                  \* candidate of the most recent enable2FA of the setup
                  \* page that failed

authVars == <<users, currentUser, last, consumed, disabled>>
tabVars == <<tabs>>
setupVars == <<setupSecret, verificationCode, setupError>>
loginVars == <<showLogin, loginCode, loginError>>
demoVars == <<twofa_secret, twofa_enabled, setupVars, loginVars,
              twoFAEnabled, isLoggedIn, demoLast>>
codecVars == <<buffer, encoded, typed, decoded, hmac, totp>>
counterVars == <<clock, timeBuffer>>
contextVars == <<authState, show2FASetup, setupData, setupMessage, rejected>>
vars == <<now, authVars, tabVars, demoVars, codecVars, counterVars,
          contextVars>>

\* ------------------------------------------------------ one-time codes
\* floor(epoch seconds / step)
Counter(t, step) == t \div step

\* The code of a secret for a time counter.
Hotp(secret, counter) == (counter * secret + secret) % NumCodes

\* authenticator.verify({ token, secret, window }) at time t.
AuthenticatorVerify(token, secret, window, t) ==
    \E d \in (0 - window)..window :
        token = Hotp(secret, Counter(t, Period) + d)

\* ------------------------------------------------------------ helpers
\* users.findIndex(u => u.id === userId): 0 when there is none.
FindIndexById(us, userId) ==
    IF \E i \in 1..Len(us) : us[i].id = userId
    THEN CHOOSE i \in 1..Len(us) :
            /\ us[i].id = userId
            /\ \A j \in 1..(i - 1) : us[j].id # userId
    ELSE 0

\* users.find(u => u.email === email), as an index: 0 when there is none.
FindIndexByEmail(us, email) ==
    IF \E i \in 1..Len(us) : us[i].email = email
    THEN CHOOSE i \in 1..Len(us) :
            /\ us[i].email = email
            /\ \A j \in 1..(i - 1) : us[j].email # email
    ELSE 0

\* codes.includes(token)
Includes(codes, token) == \E k \in 1..Len(codes) : codes[k] = token

\* Mutant of FilterOut: only the first occurrence is removed.
FilterOutFirst(codes, token) ==
    IF ~Includes(codes, token) THEN codes
    ELSE LET k == CHOOSE k \in 1..Len(codes) :
                    /\ codes[k] = token
                    /\ \A j \in 1..(k - 1) : codes[j] # token
         IN SubSeq(codes, 1, k - 1) \o SubSeq(codes, k + 1, Len(codes))

\* codes.filter(code => code !== token)
RECURSIVE FilterOut(_, _)
FilterOut(codes, token) ==
    IF codes = <<>> THEN <<>>
    ELSE IF Head(codes) = token THEN FilterOut(Tail(codes), token)
    ELSE <<Head(codes)>> \o FilterOut(Tail(codes), token)

NoCall == [op |-> "none", userId |-> 0, token |-> 0, secret |-> 0, success |-> FALSE]
Call(op, userId, token, secret, success) ==
    [op |-> op, userId |-> userId, token |-> token, secret |-> secret,
     success |-> success]

\* The result of a call together with its message.
WithMessage(call, message) == call @@ [message |-> message]

\* The result of login: user is None or Some(the account found).
LoginResult(user, requiresTwoFactor) ==
    Call("login", IF user = None THEN 0 ELSE user[1].id, 0, 0, user # None)
        @@ [user |-> user, requiresTwoFactor |-> requiresTwoFactor]

\* The result of setup2FA together with the backup codes it returns.
WithBackupCodes(call, backupCodes) == call @@ [backupCodes |-> backupCodes]

\* Mutant of Enabled2FARecord: the backup codes are not stored.
Enabled2FARecordNoCodes(user, secret, backupCodes) ==
    [user EXCEPT !.is2FAEnabled = TRUE,
                 !.twoFactorSecret = Some(secret)]

\* The record enable2FA stores for the user.
Enabled2FARecord(user, secret, backupCodes) ==
    [user EXCEPT !.is2FAEnabled = TRUE,
                 !.twoFactorSecret = Some(secret),
                 !.recoveryCodes = Some(backupCodes)]

\* Mutant of Disabled2FARecord: only the flag is cleared.
Disabled2FARecordKeepsSecret(user) ==
    [user EXCEPT !.is2FAEnabled = FALSE]

\* The record disable2FA stores for the user: JSON.stringify drops the two
\* keys set to undefined.
Disabled2FARecord(user) ==
    [user EXCEPT !.is2FAEnabled = FALSE,
                 !.twoFactorSecret = None,
                 !.recoveryCodes = None]

\* Mutant of Verify2FAIsValid: one more window on each side.
Verify2FAIsValidWider(user, token, t) ==
    AuthenticatorVerify(token, user.twoFactorSecret[1], VerifyWindow + 1, t)

\* isValid of verify2FA
Verify2FAIsValid(user, token, t) ==
    AuthenticatorVerify(token, user.twoFactorSecret[1], VerifyWindow, t)

\* Mutant of Enable2FAIsValid: the window of verify2FA.
Enable2FAIsValidWide(secret, token, t) ==
    AuthenticatorVerify(token, secret, VerifyWindow, t)

\* isValid of enable2FA
Enable2FAIsValid(secret, token, t) ==
    AuthenticatorVerify(token, secret, EnableWindow, t)

\* user.recoveryCodes && user.recoveryCodes.includes(token)
IsRecoveryCode(user, token) ==
    /\ user.recoveryCodes # None
    /\ Includes(user.recoveryCodes[1], token)

\* Mutant of Disable2FAIsValid: a recovery code is accepted, as at login.
Disable2FAIsValidOrRecovery(user, token, t) ==
    \/ AuthenticatorVerify(token, user.twoFactorSecret[1], VerifyWindow, t)
    \/ IsRecoveryCode(user, token)

\* isValid of disable2FA
Disable2FAIsValid(user, token, t) ==
    AuthenticatorVerify(token, user.twoFactorSecret[1], VerifyWindow, t)

\* -------------------------------------------------------------- state
NoDemoCall == [op |-> "none", code |-> 0, ok |-> FALSE]
IdleTab == [pc |-> "idle", userId |-> 0, token |-> 0, users |-> <<>>,
            recovery |-> FALSE, success |-> FALSE]

InitAuth ==
    /\ users = <<>>
    /\ currentUser = None
    /\ last = NoCall
    /\ consumed = {}
    /\ disabled = {}

InitTabs == tabs = [tab \in Tabs |-> IdleTab]

InitDemo ==
    /\ twofa_secret = None
    /\ twofa_enabled = None
    /\ setupSecret = None
    /\ verificationCode = ShortCode
    /\ setupError = ""
    /\ showLogin = FALSE
    /\ loginCode = ShortCode
    /\ loginError = ""
    /\ twoFAEnabled = FALSE
    /\ isLoggedIn = FALSE
    /\ demoLast = NoDemoCall

\* Nothing has been encoded, decoded or generated.
InitCodec ==
    /\ buffer = <<>>
    /\ encoded = None
    /\ typed = <<>>
    /\ decoded = None
    /\ hmac = <<>>
    /\ totp = None

\* The clock of generateTOTP has not been read.
InitCounter ==
    /\ clock = <<0, 0, 0>>
    /\ timeBuffer = None

\* AuthProvider's initial state; no setup page is shown.
InitContext ==
    /\ authState = [user |-> None, isAuthenticated |-> FALSE,
                    requiresTwoFactor |-> FALSE, pendingUser |-> None]
    /\ show2FASetup = FALSE
    /\ setupData = None
    /\ setupMessage = ""
    /\ rejected = None

Init ==
    /\ now = StartTime
    /\ InitAuth
    /\ InitTabs
    /\ InitDemo
    /\ InitCodec
    /\ InitCounter
    /\ InitContext

\* No call is in flight: the result of the previous one has been taken.
Idle == last = NoCall /\ demoLast = NoDemoCall

\* Time passes.
Tick ==
    /\ Idle
    /\ now < StartTime + MaxTicks * Period
    /\ now' = now + Period
    /\ UNCHANGED <<authVars, tabVars, demoVars, codecVars, counterVars,
                   contextVars>>

\* The caller takes the result of the call: the promise resolves.
Return ==
    /\ last # NoCall
    /\ last' = NoCall
    /\ UNCHANGED <<now, codecVars, counterVars, contextVars, users, currentUser, consumed, disabled, tabVars, demoVars>>

\* AuthService.signup
Signup(email) ==
    /\ Idle
    /\ IF FindIndexByEmail(users, email) # 0
       THEN /\ last' = Call("signup", 0, 0, 0, FALSE)
            /\ UNCHANGED users
       ELSE LET newUser == [id |-> now, email |-> email, is2FAEnabled |-> FALSE,
                            twoFactorSecret |-> None, recoveryCodes |-> None]
            IN /\ users' = Append(users, newUser)
               /\ last' = Call("signup", newUser.id, 0, 0, TRUE)
    /\ UNCHANGED <<now, codecVars, counterVars, contextVars, currentUser, consumed, disabled, tabVars, demoVars>>

\* AuthService.login
Login(email) ==
    LET i == FindIndexByEmail(users, email) IN
    /\ Idle
    /\ IF i = 0
       THEN /\ last' = LoginResult(None, FALSE)
            /\ UNCHANGED currentUser
       ELSE IF users[i].is2FAEnabled
       THEN /\ last' = LoginResult(Some(users[i]), TRUE)
            /\ UNCHANGED currentUser
       ELSE /\ currentUser' = Some(users[i])
            /\ last' = LoginResult(Some(users[i]), FALSE)
    /\ UNCHANGED <<now, codecVars, counterVars, contextVars, users, consumed, disabled, tabVars, demoVars>>

\* Mutant of Verify2FA: the recovery set is tried before the time windows.
Verify2FARecoveryFirst(userId, token) ==
    LET i == FindIndexById(users, userId) IN
    /\ Idle
    /\ IF i = 0 \/ users[i].twoFactorSecret = None
       THEN /\ last' = WithMessage(Call("verify2FA", userId, token, 0, FALSE),
                                   "Invalid user or 2FA not set up")
            /\ UNCHANGED <<users, currentUser, consumed>>
       ELSE IF IsRecoveryCode(users[i], token)
       THEN /\ users' = [users EXCEPT ![i].recoveryCodes =
                            Some(FilterOut(users[i].recoveryCodes[1], token))]
            /\ currentUser' = Some(users'[i])
            /\ consumed' = consumed \cup {<<userId, token>>}
            /\ last' = WithMessage(Call("verify2FA", userId, token, 0, TRUE),
                                   "Login successful with recovery code")
       ELSE IF ~Verify2FAIsValid(users[i], token, now)
       THEN /\ last' = WithMessage(Call("verify2FA", userId, token, 0, FALSE),
                                   "Invalid authentication code")
            /\ UNCHANGED <<users, currentUser, consumed>>
       ELSE /\ currentUser' = Some(users[i])
            /\ last' = WithMessage(Call("verify2FA", userId, token, 0, TRUE),
                                   "Login successful")
            /\ UNCHANGED <<users, consumed>>
    /\ UNCHANGED <<now, codecVars, counterVars, contextVars, disabled, tabVars, demoVars>>

\* Mutant of Verify2FA: a recovery code uses up the whole recovery set.
Verify2FADropsAllCodes(userId, token) ==
    LET i == FindIndexById(users, userId) IN
    /\ Idle
    /\ IF i = 0 \/ users[i].twoFactorSecret = None
       THEN /\ last' = WithMessage(Call("verify2FA", userId, token, 0, FALSE),
                                   "Invalid user or 2FA not set up")
            /\ UNCHANGED <<users, currentUser, consumed>>
       ELSE IF ~Verify2FAIsValid(users[i], token, now)
       THEN IF IsRecoveryCode(users[i], token)
            THEN /\ users' = [users EXCEPT ![i].recoveryCodes =
                                Some(<<>>)]
                 /\ currentUser' = Some(users'[i])
                 /\ consumed' = consumed \cup {<<userId, token>>}
                 /\ last' = WithMessage(Call("verify2FA", userId, token, 0, TRUE),
                                        "Login successful with recovery code")
            ELSE /\ last' = WithMessage(Call("verify2FA", userId, token, 0, FALSE),
                                     "Invalid authentication code")
                 /\ UNCHANGED <<users, currentUser, consumed>>
       ELSE /\ currentUser' = Some(users[i])
            /\ last' = WithMessage(Call("verify2FA", userId, token, 0, TRUE),
                                   "Login successful")
            /\ UNCHANGED <<users, consumed>>
    /\ UNCHANGED <<now, codecVars, counterVars, contextVars, disabled, tabVars, demoVars>>

\* Mutant of Verify2FA: a wrong code ends the session.
Verify2FALogsOutOnFailure(userId, token) ==
    LET i == FindIndexById(users, userId) IN
    /\ Idle
    /\ IF i = 0 \/ users[i].twoFactorSecret = None
       THEN /\ last' = WithMessage(Call("verify2FA", userId, token, 0, FALSE),
                                   "Invalid user or 2FA not set up")
            /\ UNCHANGED <<users, currentUser, consumed>>
       ELSE IF ~Verify2FAIsValid(users[i], token, now)
       THEN IF IsRecoveryCode(users[i], token)
            THEN /\ users' = [users EXCEPT ![i].recoveryCodes =
                                Some(FilterOut(users[i].recoveryCodes[1], token))]
                 /\ currentUser' = Some(users'[i])
                 /\ consumed' = consumed \cup {<<userId, token>>}
                 /\ last' = WithMessage(Call("verify2FA", userId, token, 0, TRUE),
                                        "Login successful with recovery code")
            ELSE /\ last' = WithMessage(Call("verify2FA", userId, token, 0, FALSE),
                                     "Invalid authentication code")
                 /\ currentUser' = None
                 /\ UNCHANGED <<users, consumed>>
       ELSE /\ currentUser' = Some(users[i])
            /\ last' = WithMessage(Call("verify2FA", userId, token, 0, TRUE),
                                   "Login successful")
            /\ UNCHANGED <<users, consumed>>
    /\ UNCHANGED <<now, codecVars, counterVars, contextVars, disabled, tabVars, demoVars>>

\* AuthService.verify2FA
Verify2FA(userId, token) ==
    LET i == FindIndexById(users, userId) IN
    /\ Idle
    /\ IF i = 0 \/ users[i].twoFactorSecret = None
       THEN /\ last' = WithMessage(Call("verify2FA", userId, token, 0, FALSE),
                                   "Invalid user or 2FA not set up")
            /\ UNCHANGED <<users, currentUser, consumed>>
       ELSE IF ~Verify2FAIsValid(users[i], token, now)
       THEN IF IsRecoveryCode(users[i], token)
            THEN /\ users' = [users EXCEPT ![i].recoveryCodes =
                                Some(FilterOut(users[i].recoveryCodes[1], token))]
                 /\ currentUser' = Some(users'[i])
                 /\ consumed' = consumed \cup {<<userId, token>>}
                 /\ last' = WithMessage(Call("verify2FA", userId, token, 0, TRUE),
                                        "Login successful with recovery code")
            ELSE /\ last' = WithMessage(Call("verify2FA", userId, token, 0, FALSE),
                                     "Invalid authentication code")
                 /\ UNCHANGED <<users, currentUser, consumed>>
       ELSE /\ currentUser' = Some(users[i])
            /\ last' = WithMessage(Call("verify2FA", userId, token, 0, TRUE),
                                   "Login successful")
            /\ UNCHANGED <<users, consumed>>
    /\ UNCHANGED <<now, codecVars, counterVars, contextVars, disabled, tabVars, demoVars>>

\* Mutant of Setup2FA: the generated secret and backup codes are stored in
\* the account.
Setup2FABindsSecret(userId) ==
    LET i == FindIndexById(users, userId) IN
    /\ Idle
    /\ \E secret \in Secrets, backupCodes \in BackupCodeLists :
          /\ last' = WithBackupCodes(Call("setup2FA", userId, 0, secret, TRUE),
                                     backupCodes)
          /\ users' = IF i = 0 THEN users
                      ELSE [users EXCEPT ![i] =
                              Enabled2FARecord(@, secret, backupCodes)]
    /\ UNCHANGED <<now, codecVars, counterVars, contextVars, currentUser, consumed, disabled, tabVars, demoVars>>

\* AuthService.setup2FA: returns a fresh secret and backup codes, stores
\* nothing.
Setup2FA(userId) ==
    /\ Idle
    /\ \E secret \in Secrets, backupCodes \in BackupCodeLists :
          last' = WithBackupCodes(Call("setup2FA", userId, 0, secret, TRUE),
                                  backupCodes)
    /\ UNCHANGED <<now, codecVars, counterVars, contextVars, users, currentUser, consumed, disabled, tabVars, demoVars>>

\* Mutant of Enable2FA: a success enables 2FA in every stored record.
Enable2FAEnablesAll(userId, secret, token, backupCodes) ==
    LET userIndex == FindIndexById(users, userId) IN
    /\ Idle
    /\ IF ~Enable2FAIsValid(secret, token, now)
       THEN /\ last' = Call("enable2FA", userId, token, secret, FALSE)
            /\ UNCHANGED <<users, currentUser, consumed, disabled>>
       ELSE IF userIndex = 0
       THEN /\ last' = Call("enable2FA", userId, token, secret, FALSE)
            /\ UNCHANGED <<users, currentUser, consumed, disabled>>
       ELSE /\ users' = [j \in 1..Len(users) |->
                            Enabled2FARecord(users[j], secret, backupCodes)]
            /\ currentUser' = Some(users'[userIndex])
            /\ consumed' = {c \in consumed : c[1] # userId}
            /\ disabled' = disabled \ {userId}
            /\ last' = Call("enable2FA", userId, token, secret, TRUE)
    /\ UNCHANGED <<now, codecVars, counterVars, contextVars, tabVars, demoVars>>

\* Mutant of Enable2FA: the candidate is stored before the token is
\* checked.
Enable2FAStoresBeforeCheck(userId, secret, token, backupCodes) ==
    LET userIndex == FindIndexById(users, userId) IN
    /\ Idle
    /\ IF userIndex = 0
       THEN /\ last' = Call("enable2FA", userId, token, secret, FALSE)
            /\ UNCHANGED <<users, currentUser, consumed, disabled>>
       ELSE /\ users' = [users EXCEPT ![userIndex] =
                            Enabled2FARecord(@, secret, backupCodes)]
            /\ currentUser' = Some(users'[userIndex])
            /\ consumed' = {c \in consumed : c[1] # userId}
            /\ disabled' = disabled \ {userId}
            /\ last' = Call("enable2FA", userId, token, secret,
                            Enable2FAIsValid(secret, token, now))
    /\ UNCHANGED <<now, codecVars, counterVars, contextVars, tabVars, demoVars>>

\* AuthService.enable2FA
Enable2FA(userId, secret, token, backupCodes) ==
    LET userIndex == FindIndexById(users, userId) IN
    /\ Idle
    /\ IF ~Enable2FAIsValid(secret, token, now)
       THEN /\ last' = Call("enable2FA", userId, token, secret, FALSE)
            /\ UNCHANGED <<users, currentUser, consumed, disabled>>
       ELSE IF userIndex = 0
       THEN /\ last' = Call("enable2FA", userId, token, secret, FALSE)
            /\ UNCHANGED <<users, currentUser, consumed, disabled>>
       ELSE /\ users' = [users EXCEPT ![userIndex] =
                            Enabled2FARecord(@, secret, backupCodes)]
            /\ currentUser' = Some(users'[userIndex])
            /\ consumed' = {c \in consumed : c[1] # userId}
            /\ disabled' = disabled \ {userId}
            /\ last' = Call("enable2FA", userId, token, secret, TRUE)
    /\ UNCHANGED <<now, codecVars, counterVars, contextVars, tabVars, demoVars>>

\* AuthService.disable2FA
Disable2FA(userId, token) ==
    LET i == FindIndexById(users, userId) IN
    /\ Idle
    /\ IF i = 0 \/ users[i].twoFactorSecret = None
       THEN /\ last' = Call("disable2FA", userId, token, 0, FALSE)
            /\ UNCHANGED <<users, currentUser, disabled>>
       ELSE IF ~Disable2FAIsValid(users[i], token, now)
       THEN /\ last' = Call("disable2FA", userId, token, 0, FALSE)
            /\ UNCHANGED <<users, currentUser, disabled>>
       ELSE /\ users' = [users EXCEPT ![i] = Disabled2FARecord(@)]
            /\ currentUser' = Some(users'[i])
            /\ disabled' = disabled \cup {userId}
            /\ last' = Call("disable2FA", userId, token, 0, TRUE)
    /\ UNCHANGED <<now, codecVars, counterVars, contextVars, consumed, tabVars, demoVars>>

\* AuthService.logout
Logout ==
    /\ Idle
    /\ currentUser' = None
    /\ last' = Call("logout", 0, 0, 0, TRUE)
    /\ UNCHANGED <<now, codecVars, counterVars, contextVars, users, consumed, disabled, tabVars, demoVars>>

\* The backup-code lists tried with a candidate secret and token: a call
\* whose token is rejected never reads its backupCodes argument, so one
\* list stands for all of them.
BackupCodeInputs(secret, token) ==
    IF Enable2FAIsValid(secret, token, now)
    THEN BackupCodeLists
    ELSE {[k \in 1..BackupLen |-> NumCodes]}

Next ==
    \/ Tick
    \/ Return
    \/ \E email \in Emails : Signup(email)
    \/ \E email \in Emails : Login(email)
    \/ \E userId \in Times, token \in Tokens : Verify2FA(userId, token)
    \/ \E userId \in Times : Setup2FA(userId)
    \/ \E userId \in Times, secret \in Secrets, token \in Tokens :
          \E backupCodes \in BackupCodeInputs(secret, token) :
            Enable2FA(userId, secret, token, backupCodes)
    \/ \E userId \in Times, token \in Tokens : Disable2FA(userId, token)
    \/ Logout

Spec == Init /\ [][Next]_vars

\* ------------------------------------------------- tabs on one store
\* A store in which one account has 2FA enabled, as signup and enable2FA
\* leave it.
InitStore ==
    /\ \E secret \in Secrets, backupCodes \in BackupCodeLists :
          users = << [id |-> StartTime, email |-> 1, is2FAEnabled |-> TRUE,
                      twoFactorSecret |-> Some(secret),
                      recoveryCodes |-> Some(backupCodes)] >>
    /\ currentUser = None
    /\ last = NoCall
    /\ consumed = {}
    /\ disabled = {}

InitTabsSpec ==
    /\ now = StartTime
    /\ InitStore
    /\ InitTabs
    /\ InitDemo
    /\ InitCodec
    /\ InitCounter
    /\ InitContext

TabDone(tab, userId, token, recovery, success) ==
    tabs' = [tabs EXCEPT ![tab] =
                [pc |-> "done", userId |-> userId, token |-> token,
                 users |-> <<>>, recovery |-> recovery, success |-> success]]

\* verify2FA in a tab, up to its first write: getUsers, the lookup and the
\* two checks.  A call that fails returns here.
TabVerifyRead(tab, userId, token) ==
    LET us == users
        i == FindIndexById(us, userId)
    IN
    /\ tabs[tab].pc = "idle"
    /\ IF i = 0 \/ us[i].twoFactorSecret = None
       THEN TabDone(tab, userId, token, FALSE, FALSE)
       ELSE IF ~Verify2FAIsValid(us[i], token, now)
       THEN IF IsRecoveryCode(us[i], token)
            THEN tabs' = [tabs EXCEPT ![tab] =
                    [pc |-> "save", userId |-> userId, token |-> token,
                     users |-> [us EXCEPT ![i].recoveryCodes =
                                  Some(FilterOut(us[i].recoveryCodes[1], token))],
                     recovery |-> TRUE, success |-> FALSE]]
            ELSE TabDone(tab, userId, token, FALSE, FALSE)
       ELSE tabs' = [tabs EXCEPT ![tab] =
                [pc |-> "setCurrent", userId |-> userId, token |-> token,
                 users |-> us, recovery |-> FALSE, success |-> FALSE]]
    /\ UNCHANGED <<now, codecVars, counterVars, contextVars, authVars, demoVars>>

\* this.saveUsers(users) of the recovery-code branch: the tab's copy of
\* the whole list replaces the stored one.
TabVerifySave(tab) ==
    /\ tabs[tab].pc = "save"
    /\ users' = tabs[tab].users
    /\ tabs' = [tabs EXCEPT ![tab].pc = "setCurrent"]
    /\ UNCHANGED <<now, codecVars, counterVars, contextVars, currentUser, last, consumed, disabled, demoVars>>

\* this.setCurrentUser(user), and the call returns success.
TabVerifySetCurrent(tab) ==
    LET t == tabs[tab]
        i == FindIndexById(t.users, t.userId)
    IN
    /\ t.pc = "setCurrent"
    /\ currentUser' = Some(t.users[i])
    /\ TabDone(tab, t.userId, t.token, t.recovery, TRUE)
    /\ UNCHANGED <<now, codecVars, counterVars, contextVars, users, last, consumed, disabled, demoVars>>

\* disable2FA in a tab, up to its first write: getUsers, the lookup, the
\* code check and the new record in the tab's copy of the list.  A call
\* that fails returns here.
TabDisableRead(tab, userId, token) ==
    LET us == users
        i == FindIndexById(us, userId)
    IN
    /\ tabs[tab].pc = "idle"
    /\ IF i = 0 \/ us[i].twoFactorSecret = None
       THEN TabDone(tab, userId, token, FALSE, FALSE)
       ELSE IF ~Disable2FAIsValid(us[i], token, now)
       THEN TabDone(tab, userId, token, FALSE, FALSE)
       ELSE tabs' = [tabs EXCEPT ![tab] =
                [pc |-> "disableSave", userId |-> userId, token |-> token,
                 users |-> [us EXCEPT ![i] = Disabled2FARecord(@)],
                 recovery |-> FALSE, success |-> FALSE]]
    /\ UNCHANGED <<now, codecVars, counterVars, contextVars, authVars, demoVars>>

\* this.saveUsers(users) of disable2FA
TabDisableSave(tab) ==
    /\ tabs[tab].pc = "disableSave"
    /\ users' = tabs[tab].users
    /\ disabled' = disabled \cup {tabs[tab].userId}
    /\ tabs' = [tabs EXCEPT ![tab].pc = "disableSetCurrent"]
    /\ UNCHANGED <<now, codecVars, counterVars, contextVars, currentUser, last, consumed, demoVars>>

\* this.setCurrentUser(users[userIndex]) of disable2FA, and the call
\* returns success.
TabDisableSetCurrent(tab) ==
    LET t == tabs[tab]
        i == FindIndexById(t.users, t.userId)
    IN
    /\ t.pc = "disableSetCurrent"
    /\ currentUser' = Some(t.users[i])
    /\ TabDone(tab, t.userId, t.token, FALSE, TRUE)
    /\ UNCHANGED <<now, codecVars, counterVars, contextVars, users, last, consumed, disabled, demoVars>>

\* The caller takes the tab's result; the tab may call again.
TabReturn(tab) ==
    /\ tabs[tab].pc = "done"
    /\ tabs' = [tabs EXCEPT ![tab] = IdleTab]
    /\ UNCHANGED <<now, codecVars, counterVars, contextVars, authVars, demoVars>>

NextTabs ==
    \/ Tick
    \/ \E tab \in Tabs, userId \in Times, token \in Tokens :
          TabVerifyRead(tab, userId, token)
    \/ \E tab \in Tabs : TabVerifySave(tab)
    \/ \E tab \in Tabs : TabVerifySetCurrent(tab)
    \/ \E tab \in Tabs, userId \in Times, token \in Tokens :
          TabDisableRead(tab, userId, token)
    \/ \E tab \in Tabs : TabDisableSave(tab)
    \/ \E tab \in Tabs : TabDisableSetCurrent(tab)
    \/ \E tab \in Tabs : TabReturn(tab)

SpecTabs == InitTabsSpec /\ [][NextTabs]_vars

\* --------------------------------------- hand-rolled TOTP and the demo
\* generateTOTP(secret, timeStep) at time t
GenerateTOTP(secret, timeStep, t) == Hotp(secret, Counter(t, timeStep))

\* The comparison of handleVerification and of TwoFAUtils.verifyCode:
\* expectedCode (currentCode) is generateTOTP(secret), whose time step
\* defaults to 30, and previousCode is generateTOTP(secret, 30).
MatchesCurrentOrPrevious(secret, code, t) ==
    LET expectedCode == GenerateTOTP(secret, Period, t)
        previousCode == GenerateTOTP(secret, 30, t)
    IN code = expectedCode \/ code = previousCode

\* !secret of a stored value: the key is absent or holds the empty string.
NoSecret(stored) == stored = None \/ stored[1] = EmptySecret

\* TwoFAUtils.verifyCode(code)
VerifyCode(code, t) ==
    IF NoSecret(twofa_secret) THEN FALSE
    ELSE MatchesCurrentOrPrevious(twofa_secret[1], code, t)

\* TwoFAUtils.isEnabled()
IsEnabled == twofa_secret # None

DemoCall(op, code, ok) == [op |-> op, code |-> code, ok |-> ok]

\* "Setup 2FA": the dialog is shown and its mount effect generates a
\* secret.
ShowSetup(secret) ==
    /\ Idle
    /\ ~twoFAEnabled
    /\ setupSecret = None
    /\ setupSecret' = Some(secret)
    /\ verificationCode' = ShortCode
    /\ setupError' = ""
    /\ UNCHANGED <<now, codecVars, counterVars, contextVars, authVars, tabVars, twofa_secret, twofa_enabled,
                   loginVars, twoFAEnabled, isLoggedIn, demoLast>>

\* onClose of the setup dialog
CloseSetup ==
    /\ Idle
    /\ setupSecret # None
    /\ setupSecret' = None
    /\ verificationCode' = ShortCode
    /\ setupError' = ""
    /\ UNCHANGED <<now, codecVars, counterVars, contextVars, authVars, tabVars, twofa_secret, twofa_enabled,
                   loginVars, twoFAEnabled, isLoggedIn, demoLast>>

\* onChange of the setup dialog's input
SetVerificationCode(code) ==
    /\ Idle
    /\ setupSecret # None
    /\ verificationCode' = code
    /\ UNCHANGED <<now, codecVars, counterVars, contextVars, authVars, tabVars, twofa_secret, twofa_enabled,
                   setupSecret, setupError, loginVars, twoFAEnabled,
                   isLoggedIn, demoLast>>

\* Mutant of HandleVerification: a code of six digits completes the setup
\* whether or not it matches.
HandleVerificationSavesUnverified ==
    /\ Idle
    /\ setupSecret # None
    /\ IF CodeLength(verificationCode) # 6
       THEN /\ setupError' = "Please enter a 6-digit code"
            /\ demoLast' = DemoCall("handleVerification", verificationCode, FALSE)
            /\ UNCHANGED <<twofa_secret, twofa_enabled, twoFAEnabled,
                           setupSecret, verificationCode>>
       ELSE /\ twofa_secret' = setupSecret
            /\ twofa_enabled' = Some("true")
            /\ twoFAEnabled' = TRUE
            /\ setupSecret' = None
            /\ verificationCode' = ShortCode
            /\ setupError' = ""
            /\ demoLast' = DemoCall("handleVerification", verificationCode, TRUE)
    /\ UNCHANGED <<now, codecVars, counterVars, contextVars, authVars, tabVars, loginVars, isLoggedIn>>

\* TwoFASetup.handleVerification, with TwoFADemo.handleSetupComplete and
\* TwoFAUtils.saveSecret when the code matches.
HandleVerification ==
    /\ Idle
    /\ setupSecret # None
    /\ IF CodeLength(verificationCode) # 6
       THEN /\ setupError' = "Please enter a 6-digit code"
            /\ demoLast' = DemoCall("handleVerification", verificationCode, FALSE)
            /\ UNCHANGED <<twofa_secret, twofa_enabled, twoFAEnabled,
                           setupSecret, verificationCode>>
       ELSE IF MatchesCurrentOrPrevious(setupSecret[1], verificationCode, now)
       THEN /\ twofa_secret' = setupSecret
            /\ twofa_enabled' = Some("true")
            /\ twoFAEnabled' = TRUE
            /\ setupSecret' = None
            /\ verificationCode' = ShortCode
            /\ setupError' = ""
            /\ demoLast' = DemoCall("handleVerification", verificationCode, TRUE)
       ELSE /\ setupError' = "Invalid verification code. Please try again."
            /\ demoLast' = DemoCall("handleVerification", verificationCode, FALSE)
            /\ UNCHANGED <<twofa_secret, twofa_enabled, twoFAEnabled,
                           setupSecret, verificationCode>>
    /\ UNCHANGED <<now, codecVars, counterVars, contextVars, authVars, tabVars, loginVars, isLoggedIn>>

\* "Login with 2FA": the login dialog is shown.
ShowLogin ==
    /\ Idle
    /\ twoFAEnabled
    /\ ~isLoggedIn
    /\ ~showLogin
    /\ showLogin' = TRUE
    /\ loginCode' = ShortCode
    /\ loginError' = ""
    /\ UNCHANGED <<now, codecVars, counterVars, contextVars, authVars, tabVars, twofa_secret, twofa_enabled,
                   setupVars, twoFAEnabled, isLoggedIn, demoLast>>

\* onClose of the login dialog
CloseLogin ==
    /\ Idle
    /\ showLogin
    /\ showLogin' = FALSE
    /\ loginCode' = ShortCode
    /\ loginError' = ""
    /\ UNCHANGED <<now, codecVars, counterVars, contextVars, authVars, tabVars, twofa_secret, twofa_enabled,
                   setupVars, twoFAEnabled, isLoggedIn, demoLast>>

\* onChange of the login dialog's input
SetLoginCode(code) ==
    /\ Idle
    /\ showLogin
    /\ loginCode' = code
    /\ UNCHANGED <<now, codecVars, counterVars, contextVars, authVars, tabVars, twofa_secret, twofa_enabled,
                   setupVars, showLogin, loginError, twoFAEnabled,
                   isLoggedIn, demoLast>>

\* TwoFALogin.handleSubmit with TwoFADemo.handleLoginVerify
HandleLoginVerify ==
    /\ Idle
    /\ showLogin
    /\ IF CodeLength(loginCode) # 6
       THEN /\ loginError' = "Please enter a 6-digit code"
            /\ demoLast' = DemoCall("handleLoginVerify", loginCode, FALSE)
            /\ UNCHANGED <<isLoggedIn, showLogin, loginCode>>
       ELSE IF VerifyCode(loginCode, now)
       THEN /\ isLoggedIn' = TRUE
            /\ showLogin' = FALSE
            /\ loginCode' = ShortCode
            /\ loginError' = ""
            /\ demoLast' = DemoCall("handleLoginVerify", loginCode, TRUE)
       ELSE /\ loginError' = "Invalid code. Please try again."
            /\ demoLast' = DemoCall("handleLoginVerify", loginCode, FALSE)
            /\ UNCHANGED <<isLoggedIn, showLogin, loginCode>>
    /\ UNCHANGED <<now, codecVars, counterVars, contextVars, authVars, tabVars, twofa_secret, twofa_enabled,
                   setupVars, twoFAEnabled>>

\* TwoFADemo.handleDisable2FA, confirmed, with TwoFAUtils.disable
HandleDisable2FA ==
    /\ Idle
    /\ twoFAEnabled
    /\ isLoggedIn
    /\ twofa_secret' = None
    /\ twofa_enabled' = None
    /\ twoFAEnabled' = FALSE
    /\ isLoggedIn' = FALSE
    /\ UNCHANGED <<now, codecVars, counterVars, contextVars, authVars, tabVars, setupVars, loginVars, demoLast>>

\* TwoFADemo.handleLogout
HandleLogout ==
    /\ Idle
    /\ twoFAEnabled
    /\ isLoggedIn
    /\ isLoggedIn' = FALSE
    /\ UNCHANGED <<now, codecVars, counterVars, contextVars, authVars, tabVars, twofa_secret, twofa_enabled,
                   setupVars, loginVars, twoFAEnabled, demoLast>>

\* The page is loaded again: the component state starts over and the
\* mount effect reads isEnabled().
Reload ==
    /\ Idle
    /\ setupSecret' = None
    /\ verificationCode' = ShortCode
    /\ setupError' = ""
    /\ showLogin' = FALSE
    /\ loginCode' = ShortCode
    /\ loginError' = ""
    /\ isLoggedIn' = FALSE
    /\ twoFAEnabled' = IsEnabled
    /\ UNCHANGED <<now, codecVars, counterVars, contextVars, authVars, tabVars, twofa_secret, twofa_enabled, demoLast>>

\* The handler's result has been shown.
DemoReturn ==
    /\ demoLast # NoDemoCall
    /\ demoLast' = NoDemoCall
    /\ UNCHANGED <<now, codecVars, counterVars, contextVars, authVars, tabVars, twofa_secret, twofa_enabled,
                   setupVars, loginVars, twoFAEnabled, isLoggedIn>>

NextDemo ==
    \/ Tick
    \/ DemoReturn
    \/ \E secret \in Secrets : ShowSetup(secret)
    \/ CloseSetup
    \/ \E code \in DemoCodes : SetVerificationCode(code)
    \/ HandleVerification
    \/ ShowLogin
    \/ CloseLogin
    \/ \E code \in DemoCodes : SetLoginCode(code)
    \/ HandleLoginVerify
    \/ HandleDisable2FA
    \/ HandleLogout
    \/ Reload

SpecDemo == Init /\ [][NextDemo]_vars

\* ---------------------------------------------------- base32 and codes
\* A text is a sequence of UTF-16 code units, a byte string a sequence of
\* numbers 0..255.

\* 'ABCDEFGHIJKLMNOPQRSTUVWXYZ234567'
Alphabet == [k \in 1..32 |-> IF k <= 26 THEN 64 + k ELSE 23 + k]

\* Bytes the encoded byte strings are made of.
ByteSamples == {0, 165}
\* The byte strings that are encoded.
ByteStrings == UNION {[1..n -> ByteSamples] : n \in 0..MaxBytes}

\* Characters outside A-Z2-7 that are inserted into a text: space, '-',
\* '=', and U+017F (long s).
OutsideChars == {32, 45, 61, 383}

\* value << n of a 32-bit integer.  The model keeps the low 31 bits of the
\* value: the shifts by bits - 5 and bits - 8 with bits <= 12 and the masks
\* & 31 and & 255 read no higher bit.
ShiftLeft(value, n) == (value % (2 ^ (31 - n))) * (2 ^ n)

\* (value >>> n) & mask, mask + 1 being a power of two
ShiftRightAnd(value, n, mask) == (value \div (2 ^ n)) % (mask + 1)

\* char.toUpperCase() for the characters of the model: a-z, and U+017F and
\* U+0131, whose upper case is S and I; every other one is its own.
ToUpperCase(char) ==
    IF char \in 97..122 THEN char - 32
    ELSE IF char = 383 THEN 83
    ELSE IF char = 305 THEN 73
    ELSE char

\* char.toLowerCase() for A-Z
ToLowerCase(char) == IF char \in 65..90 THEN char + 32 ELSE char

\* alphabet.indexOf(char): -1 when there is none
IndexOf(char) ==
    IF \E k \in 1..32 : Alphabet[k] = char
    THEN (CHOOSE k \in 1..32 : Alphabet[k] = char) - 1
    ELSE -1

\* Mutant of EncodeWhile: the five lowest bits are written instead of the
\* five highest unwritten ones.
RECURSIVE EncodeWhileLowBits(_, _, _)
EncodeWhileLowBits(bits, value, output) ==
    IF bits >= 5
    THEN EncodeWhileLowBits(bits - 5, value,
            Append(output, Alphabet[(value % 32) + 1]))
    ELSE [bits |-> bits, output |-> output]

\* The while loop of base32Encode
RECURSIVE EncodeWhile(_, _, _)
EncodeWhile(bits, value, output) ==
    IF bits >= 5
    THEN EncodeWhile(bits - 5, value,
            Append(output, Alphabet[ShiftRightAnd(value, bits - 5, 31) + 1]))
    ELSE [bits |-> bits, output |-> output]

\* The for loop of base32Encode from index i on
RECURSIVE EncodeFor(_, _, _, _, _)
EncodeFor(buf, i, bits, value, output) ==
    IF i > Len(buf) THEN [bits |-> bits, value |-> value, output |-> output]
    ELSE LET value1 == ShiftLeft(value, 8) + buf[i]
             w == EncodeWhile(bits + 8, value1, output)
         IN EncodeFor(buf, i + 1, w.bits, value1, w.output)

\* Mutant of Base32Encode: the bits left after the last whole group are
\* not written.
Base32EncodeNoTail(buf) ==
    EncodeFor(buf, 1, 0, 0, <<>>).output

\* base32Encode(buffer)
Base32Encode(buf) ==
    LET r == EncodeFor(buf, 1, 0, 0, <<>>) IN
    IF r.bits > 0
    THEN Append(r.output, Alphabet[(ShiftLeft(r.value, 5 - r.bits) % 32) + 1])
    ELSE r.output

\* The for loop of base32Decode from index i on; written collects the
\* bytes assigned to output[outputIndex++].
RECURSIVE DecodeFor(_, _, _, _, _)
DecodeFor(text, i, bits, value, written) ==
    IF i > Len(text) THEN written
    ELSE LET index == IndexOf(ToUpperCase(text[i])) IN
         IF index = -1 THEN DecodeFor(text, i + 1, bits, value, written)
         ELSE LET value1 == ShiftLeft(value, 5) + index
                  bits1 == bits + 5
              IN IF bits1 >= 8
                 THEN DecodeFor(text, i + 1, bits1 - 8, value1,
                        Append(written, ShiftRightAnd(value1, bits1 - 8, 255)))
                 ELSE DecodeFor(text, i + 1, bits1, value1, written)

\* base32Decode(encoded): the output array has floor(length * 5 / 8)
\* elements, an assignment past its end is dropped, and slice(0,
\* outputIndex) ends at the end of the array.
Base32Decode(text) ==
    LET capacity == (Len(text) * 5) \div 8
        written == DecodeFor(text, 1, 0, 0, <<>>)
    IN IF Len(written) <= capacity THEN written
       ELSE SubSeq(written, 1, capacity)

\* A byte string is chosen and nothing has been encoded yet.
InitBase32 ==
    /\ now = StartTime
    /\ InitAuth
    /\ InitTabs
    /\ InitDemo
    /\ buffer \in ByteStrings
    /\ encoded = None
    /\ typed = <<>>
    /\ decoded = None
    /\ hmac = <<>>
    /\ totp = None
    /\ InitCounter
    /\ InitContext

\* base32Encode(buffer) is called; its result is the text to decode.
EncodeCall ==
    /\ encoded = None
    /\ encoded' = Some(Base32Encode(buffer))
    /\ typed' = Base32Encode(buffer)
    /\ UNCHANGED <<now, authVars, tabVars, demoVars, counterVars, contextVars,
                   buffer, decoded, hmac, totp>>

\* The text is put in lower case before it is decoded.
TypeLowerCase ==
    /\ encoded # None
    /\ decoded = None
    /\ typed' = [k \in 1..Len(typed) |-> ToLowerCase(typed[k])]
    /\ typed' # typed
    /\ UNCHANGED <<now, authVars, tabVars, demoVars, counterVars, contextVars,
                   buffer, encoded, decoded,
                   hmac, totp>>

\* A character outside the alphabet is inserted after the first k
\* characters of the text before it is decoded.
TypeInsert(k, char) ==
    /\ encoded # None
    /\ decoded = None
    /\ Len(typed) < Len(encoded[1]) + MaxInserted
    /\ k \in 0..Len(typed)
    /\ typed' = SubSeq(typed, 1, k) \o <<char>> \o SubSeq(typed, k + 1, Len(typed))
    /\ UNCHANGED <<now, authVars, tabVars, demoVars, counterVars, contextVars,
                   buffer, encoded, decoded,
                   hmac, totp>>

\* base32Decode(typed) is called.
DecodeCall ==
    /\ encoded # None
    /\ decoded = None
    /\ decoded' = Some(Base32Decode(typed))
    /\ UNCHANGED <<now, authVars, tabVars, demoVars, counterVars, contextVars,
                   buffer, encoded, typed,
                   hmac, totp>>

NextBase32 ==
    \/ EncodeCall
    \/ TypeLowerCase
    \/ \E k \in 0..(2 * MaxBytes + MaxInserted), char \in OutsideChars :
          TypeInsert(k, char)
    \/ DecodeCall

SpecBase32 == InitBase32 /\ [][NextBase32]_vars

\* The digests: the low four bits of the last byte are any offset, the
\* four bytes at the offset are any of DigestBytes, the others are 1.
DigestBytes == {0, 1, 127, 128, 255}
Digests ==
    { [k \in 1..DigestLength |->
          IF k = DigestLength THEN 16 * hi + offset
          ELSE IF k - 1 \in offset..(offset + 3) THEN four[k - offset]
          ELSE 1] :
      offset \in 0..15, hi \in {0, 15}, four \in [1..4 -> DigestBytes] }

\* code.toString(): the decimal digits of a number >= 0, as characters
RECURSIVE NumberToString(_)
NumberToString(n) ==
    IF n < 10 THEN <<48 + n>>
    ELSE Append(NumberToString(n \div 10), 48 + (n % 10))

\* str.padStart(targetLength, padChar) for a one-character pad
RECURSIVE PadStart(_, _, _)
PadStart(str, targetLength, padChar) ==
    IF Len(str) >= targetLength THEN str
    ELSE PadStart(<<padChar>> \o str, targetLength, padChar)

\* Mutant of DynamicTruncation: the offset is the high four bits of the
\* last byte.
DynamicTruncationHighNibble(digest) ==
    LET offset == digest[Len(digest)] \div 16 IN
      (digest[offset + 1] % 128) * (2 ^ 24)
    + (digest[offset + 2] % 256) * (2 ^ 16)
    + (digest[offset + 3] % 256) * (2 ^ 8)
    + (digest[offset + 4] % 256)

\* The 31-bit number generateTOTP takes from the digest (0-based indices).
DynamicTruncation(digest) ==
    LET offset == digest[Len(digest)] % 16 IN
      (digest[offset + 1] % 128) * (2 ^ 24)
    + (digest[offset + 2] % 256) * (2 ^ 16)
    + (digest[offset + 3] % 256) * (2 ^ 8)
    + (digest[offset + 4] % 256)

\* Mutant of CodeOfDigest: the number is not reduced before it is
\* formatted.
CodeOfDigestNoModulus(digest) ==
    PadStart(NumberToString(DynamicTruncation(digest)), CodeDigits, 48)

\* The string generateTOTP returns for a digest.
CodeOfDigest(digest) ==
    PadStart(NumberToString(DynamicTruncation(digest) % CodeModulus),
             CodeDigits, 48)

\* A digest is chosen and no code has been generated yet.
InitTotp ==
    /\ now = StartTime
    /\ InitAuth
    /\ InitTabs
    /\ InitDemo
    /\ buffer = <<>>
    /\ encoded = None
    /\ typed = <<>>
    /\ decoded = None
    /\ hmac \in Digests
    /\ totp = None
    /\ InitCounter
    /\ InitContext

\* generateTOTP from the digest on
GenerateCall ==
    /\ totp = None
    /\ totp' = Some(CodeOfDigest(hmac))
    /\ UNCHANGED <<now, authVars, tabVars, demoVars, counterVars, contextVars,
                   buffer, encoded, typed,
                   decoded, hmac>>

NextTotp == GenerateCall

SpecTotp == InitTotp /\ [][NextTotp]_vars

\* ------------------------------------------- the message of generateTOTP
\* Date.now() / 1000 and the time counter exceed a machine integer of the
\* checker, so a number is here a sequence of 16-bit limbs, the least
\* significant first; arithmetic on them is schoolbook arithmetic.  The
\* clock is taken in whole seconds: floor(ms / 1000 / step) is
\* floor(floor(ms / 1000) / step).

\* The clock values tried: around 0, around a multiple of the period,
\* around 2^16 and 2^32 seconds, and from 30 * 2^32 seconds on, where the
\* counter reaches 2^32.  The largest, 2010 * 2^32 + 65535 * 2^16 + 65535,
\* is below the last instant a Date can hold (8.64 * 10^12 seconds).
ClockSamples ==
    {<<l0, l1, l2>> : l0 \in {0, 1, 29, 30, 65535},
                      l1 \in {0, 1, 65535},
                      l2 \in {0, 29, 30, 2010}}

\* The remainder of the limbs above limb i, divided by divisor.
RECURSIVE RemainderAbove(_, _, _)
RemainderAbove(limbs, i, divisor) ==
    IF i >= Len(limbs) THEN 0
    ELSE (RemainderAbove(limbs, i + 1, divisor) * 65536 + limbs[i + 1])
            % divisor

\* Math.floor(limbs / divisor), by long division.
FloorDiv(limbs, divisor) ==
    [i \in 1..Len(limbs) |->
        (RemainderAbove(limbs, i, divisor) * 65536 + limbs[i]) \div divisor]

\* ToUint32 of DataView.setUint32: the value modulo 2^32, as two limbs.
ToUint32(limbs) == <<limbs[1], limbs[2]>>

\* new ArrayBuffer(8)
ArrayBuffer8 == [i \in 1..8 |-> 0]

\* DataView.setUint32(byteOffset, value, false): four bytes, big-endian;
\* the bytes of the buffer are numbered from 1.
SetUint32(bytes, byteOffset, value) ==
    LET word == ToUint32(value) IN
    [i \in 1..Len(bytes) |->
        IF i = byteOffset + 1 THEN word[2] \div 256
        ELSE IF i = byteOffset + 2 THEN word[2] % 256
        ELSE IF i = byteOffset + 3 THEN word[1] \div 256
        ELSE IF i = byteOffset + 4 THEN word[1] % 256
        ELSE bytes[i]]

\* generateTOTP, lines 77-80: the message for a clock of `seconds`.
TimeMessage(seconds, timeStep) ==
    LET time == FloorDiv(seconds, timeStep)
    IN SetUint32(ArrayBuffer8, 4, time)

InitCounterSpec ==
    /\ now = StartTime
    /\ InitAuth
    /\ InitTabs
    /\ InitDemo
    /\ InitCodec
    /\ clock \in ClockSamples
    /\ timeBuffer = None
    /\ InitContext

\* generateTOTP builds its message.
TimeMessageCall ==
    /\ timeBuffer = None
    /\ timeBuffer' = Some(TimeMessage(clock, Period))
    /\ UNCHANGED <<now, authVars, tabVars, demoVars, codecVars, clock,
                   contextVars>>

NextCounter == TimeMessageCall

SpecCounter == InitCounterSpec /\ [][NextCounter]_vars

\* ------------------------------------------- wrong codes and failures
\* The outcome of a call of TwoFAUtils.verifyCode: the value it returns, or
\* that it threw (its promise is rejected).
Returned(value) == [ok |-> value, threw |-> FALSE]
Threw == [ok |-> FALSE, threw |-> TRUE]

\* Mutant of VerifyCodeOutcome: no try / catch around generateTOTP.
VerifyCodeUncaught(code, failed, t) ==
    IF NoSecret(twofa_secret) THEN Returned(FALSE)
    ELSE IF failed THEN Threw
    ELSE Returned(MatchesCurrentOrPrevious(twofa_secret[1], code, t))

\* TwoFAUtils.verifyCode(code) at time t.  `failed` says that generateTOTP
\* throws or rejects (crypto.subtle is missing, or importKey refuses the
\* key): the catch turns that into false.
VerifyCodeOutcome(code, failed, t) ==
    IF NoSecret(twofa_secret) THEN Returned(FALSE)
    ELSE IF failed THEN Returned(FALSE)
    ELSE Returned(MatchesCurrentOrPrevious(twofa_secret[1], code, t))

\* A store in which one account has 2FA enabled, and a browser in which
\* the demo has saved a secret or has none.
InitErrors ==
    /\ now = StartTime
    /\ InitStore
    /\ InitTabs
    /\ \E stored \in {None} \cup {Some(secret) : secret \in Secrets} :
          /\ twofa_secret = stored
          /\ twofa_enabled = IF stored = None THEN None ELSE Some("true")
    /\ setupSecret = None
    /\ verificationCode = ShortCode
    /\ setupError = ""
    /\ showLogin = FALSE
    /\ loginCode = ShortCode
    /\ loginError = ""
    /\ twoFAEnabled = FALSE
    /\ isLoggedIn = FALSE
    /\ demoLast = NoDemoCall
    /\ InitCodec
    /\ InitCounter
    /\ InitContext

\* A caller awaits TwoFAUtils.verifyCode(code).
VerifyCodeCall(code, failed) ==
    /\ demoLast = NoDemoCall
    /\ demoLast' = DemoCall("verifyCode", code, FALSE)
                      @@ [failed |-> failed]
                      @@ VerifyCodeOutcome(code, failed, now)
    /\ UNCHANGED <<now, codecVars, counterVars, contextVars, authVars, tabVars,
                   twofa_secret, twofa_enabled, setupVars, loginVars,
                   twoFAEnabled, isLoggedIn>>

NextErrors ==
    \/ Tick
    \/ Return
    \/ DemoReturn
    \/ \E userId \in Times, token \in Tokens : Verify2FA(userId, token)
    \/ \E userId \in Times, secret \in Secrets, token \in Tokens :
          \E backupCodes \in BackupCodeInputs(secret, token) :
            Enable2FA(userId, secret, token, backupCodes)
    \/ \E userId \in Times, token \in Tokens : Disable2FA(userId, token)
    \/ \E code \in DemoCodes, failed \in BOOLEAN : VerifyCodeCall(code, failed)

SpecErrors == InitErrors /\ [][NextErrors]_vars

\* --------------------------------------------- TwoFAUtils on its own
\* Mutant of SaveSecret: the key twofa_enabled is not written.
SaveSecretOnly(secret) ==
    /\ demoLast = NoDemoCall
    /\ twofa_secret' = Some(secret)
    /\ demoLast' = DemoCall("saveSecret", 0, TRUE)
    /\ UNCHANGED <<now, codecVars, counterVars, contextVars, authVars, tabVars,
                   twofa_enabled, setupVars, loginVars, twoFAEnabled,
                   isLoggedIn>>

\* TwoFAUtils.saveSecret(secret), in a browser.
SaveSecret(secret) ==
    /\ demoLast = NoDemoCall
    /\ twofa_secret' = Some(secret)
    /\ twofa_enabled' = Some("true")
    /\ demoLast' = DemoCall("saveSecret", 0, TRUE)
    /\ UNCHANGED <<now, codecVars, counterVars, contextVars, authVars, tabVars,
                   setupVars, loginVars, twoFAEnabled, isLoggedIn>>

\* TwoFAUtils.disable(), in a browser; the record of the call keeps what
\* the key twofa_secret held before it.
Disable ==
    /\ demoLast = NoDemoCall
    /\ twofa_secret' = None
    /\ twofa_enabled' = None
    /\ demoLast' = DemoCall("disable", 0, TRUE) @@ [removed |-> twofa_secret]
    /\ UNCHANGED <<now, codecVars, counterVars, contextVars, authVars, tabVars,
                   setupVars, loginVars, twoFAEnabled, isLoggedIn>>

NextUtils ==
    \/ Tick
    \/ DemoReturn
    \/ \E secret \in Secrets \cup {EmptySecret} : SaveSecret(secret)
    \/ Disable
    \/ \E code \in DemoCodes, failed \in BOOLEAN : VerifyCodeCall(code, failed)

SpecUtils == Init /\ [][NextUtils]_vars

\* ------------------------------------- AuthProvider and the setup page
\* AuthProvider's state before its mount effect.
NoAuth == [user |-> None, isAuthenticated |-> FALSE,
           requiresTwoFactor |-> FALSE, pendingUser |-> None]

\* The record of the account id in the user list.
UserById(us, id) == us[FindIndexById(us, id)]

\* AppContent shows LoginForm or SignupForm.
FormsShown == ~authState.isAuthenticated /\ ~authState.requiresTwoFactor

\* AppContent shows TwoFactorVerification.
VerificationShown ==
    ~authState.isAuthenticated /\ authState.requiresTwoFactor

\* AppContent shows the Dashboard, and the Dashboard its own page.
DashboardShown == authState.isAuthenticated /\ ~show2FASetup

\* A store in which one account, created a period ago, has 2FA enabled
\* with recovery codes that are no strings of digits; the page has just
\* been loaded with nobody signed in.
InitContextSpec ==
    /\ now = StartTime
    /\ \E secret \in Secrets :
          users = << [id |-> StartTime - Period, email |-> 1,
                      is2FAEnabled |-> TRUE,
                      twoFactorSecret |-> Some(secret),
                      recoveryCodes |->
                          Some([k \in 1..BackupLen |-> NumCodes])] >>
    /\ currentUser = None
    /\ last = NoCall
    /\ consumed = {}
    /\ disabled = {}
    /\ InitTabs
    /\ InitDemo
    /\ InitCodec
    /\ InitCounter
    /\ InitContext

\* The page is loaded: every component state starts over and the mount
\* effect of AuthProvider reads the stored current user.
AuthProviderMount ==
    /\ Idle
    /\ authState' = IF currentUser = None THEN NoAuth
                    ELSE [NoAuth EXCEPT !.user = currentUser,
                                        !.isAuthenticated = TRUE]
    /\ show2FASetup' = FALSE
    /\ setupData' = None
    /\ setupMessage' = ""
    /\ UNCHANGED <<now, authVars, tabVars, demoVars, codecVars, counterVars,
                   rejected>>

\* AuthProvider.signup up to its await.
ContextSignup(email) ==
    /\ FormsShown
    /\ Signup(email)

\* AuthProvider.signup after the await.
ContextSignupResume ==
    /\ last.op = "signup"
    /\ authState' = IF last.success
                    THEN [authState EXCEPT !.user = Some(users[Len(users)]),
                                           !.isAuthenticated = TRUE]
                    ELSE authState
    /\ last' = NoCall
    /\ UNCHANGED <<now, users, currentUser, consumed, disabled, tabVars,
                   demoVars, codecVars, counterVars, show2FASetup, setupData,
                   setupMessage, rejected>>

\* AuthProvider.login up to its await.
ContextLogin(email) ==
    /\ FormsShown
    /\ Login(email)

\* Mutant of ContextLoginResume: a login that requires the second factor
\* is treated as a complete one.
ContextLoginResumeSkipsSecondFactor ==
    /\ last.op = "login"
    /\ authState' =
          IF last.success
          THEN [authState EXCEPT
                  !.user = last.user,
                  !.isAuthenticated = TRUE,
                  !.requiresTwoFactor = FALSE]
          ELSE authState
    /\ last' = NoCall
    /\ UNCHANGED <<now, users, currentUser, consumed, disabled, tabVars,
                   demoVars, codecVars, counterVars, show2FASetup, setupData,
                   setupMessage, rejected>>

\* AuthProvider.login after the await.
ContextLoginResume ==
    /\ last.op = "login"
    /\ authState' =
          IF last.success /\ last.requiresTwoFactor
          THEN [authState EXCEPT
                  !.requiresTwoFactor = TRUE,
                  !.pendingUser = last.user]
          ELSE IF last.success
          THEN [authState EXCEPT
                  !.user = last.user,
                  !.isAuthenticated = TRUE,
                  !.requiresTwoFactor = FALSE]
          ELSE authState
    /\ last' = NoCall
    /\ UNCHANGED <<now, users, currentUser, consumed, disabled, tabVars,
                   demoVars, codecVars, counterVars, show2FASetup, setupData,
                   setupMessage, rejected>>

\* AuthProvider.verify2FA up to its await; with no pending user it
\* returns a failure and changes nothing.
ProviderVerify2FA(token) ==
    /\ authState.pendingUser # None
    /\ Verify2FA(authState.pendingUser[1].id, token)

\* TwoFactorVerification.handleSubmit with AuthProvider.verify2FA, up to
\* the await.
ContextVerify2FA(token) ==
    /\ VerificationShown
    /\ ProviderVerify2FA(token)

\* AuthProvider.verify2FA after the await; result.user is the stored
\* record of the account.
ContextVerify2FAResume ==
    /\ last.op = "verify2FA"
    /\ authState' =
          IF last.success
          THEN [user |-> Some(UserById(users, last.userId)),
                isAuthenticated |-> TRUE,
                requiresTwoFactor |-> FALSE,
                pendingUser |-> None]
          ELSE authState
    /\ last' = NoCall
    /\ UNCHANGED <<now, users, currentUser, consumed, disabled, tabVars,
                   demoVars, codecVars, counterVars, show2FASetup, setupData,
                   setupMessage, rejected>>

\* AuthProvider.logout: it does not await.
ProviderLogout ==
    /\ currentUser' = None
    /\ authState' = NoAuth
    /\ UNCHANGED <<now, users, last, consumed, disabled, tabVars, demoVars,
                   codecVars, counterVars, show2FASetup, setupData,
                   setupMessage, rejected>>

\* AuthProvider.logout, from the Dashboard.
ContextLogout ==
    /\ Idle
    /\ DashboardShown
    /\ ProviderLogout

\* AuthProvider.clearPendingUser: it does not await.
ProviderClearPendingUser ==
    /\ authState' = [authState EXCEPT !.requiresTwoFactor = FALSE,
                                      !.pendingUser = None]
    /\ UNCHANGED <<now, authVars, tabVars, demoVars, codecVars, counterVars,
                   show2FASetup, setupData, setupMessage, rejected>>

\* AuthProvider.clearPendingUser, from TwoFactorVerification.handleBack.
ClearPendingUser ==
    /\ Idle
    /\ VerificationShown
    /\ ProviderClearPendingUser

\* Dashboard: "Enable Two-Factor Authentication"; TwoFactorSetup mounts.
SetShow2FASetup ==
    /\ Idle
    /\ DashboardShown
    /\ ~authState.user[1].is2FAEnabled
    /\ show2FASetup' = TRUE
    /\ setupData' = None
    /\ setupMessage' = ""
    /\ UNCHANGED <<now, authVars, tabVars, demoVars, codecVars, counterVars,
                   authState, rejected>>

\* onCancel of the setup page: TwoFactorSetup unmounts.
CancelSetup ==
    /\ Idle
    /\ show2FASetup
    /\ show2FASetup' = FALSE
    /\ setupData' = None
    /\ setupMessage' = ""
    /\ UNCHANGED <<now, authVars, tabVars, demoVars, codecVars, counterVars,
                   authState, rejected>>

\* TwoFactorSetup.initializeSetup, run by the mount effect, up to its await.
InitializeSetup ==
    /\ show2FASetup
    /\ setupData = None
    /\ authState.user # None
    /\ Setup2FA(authState.user[1].id)

\* TwoFactorSetup.initializeSetup after the await.
InitializeSetupResume ==
    /\ last.op = "setup2FA"
    /\ setupData' = Some([secret |-> last.secret,
                          backupCodes |-> last.backupCodes])
    /\ last' = NoCall
    /\ UNCHANGED <<now, users, currentUser, consumed, disabled, tabVars,
                   demoVars, codecVars, counterVars, authState, show2FASetup,
                   setupMessage, rejected>>

\* TwoFactorSetup.handleVerifyAndEnable up to its await; token is the
\* verification code typed.
HandleVerifyAndEnable(token) ==
    /\ show2FASetup
    /\ setupData # None
    /\ authState.user # None
    /\ Enable2FA(authState.user[1].id, setupData[1].secret, token,
                 setupData[1].backupCodes)

\* result.message of enable2FA
Enable2FAMessage(call, t) ==
    IF call.success THEN "2FA enabled successfully"
    ELSE IF ~Enable2FAIsValid(call.secret, call.token, t)
    THEN "Invalid verification code"
    ELSE "User not found"

\* TwoFactorSetup.handleVerifyAndEnable after the await: the message is
\* shown and setupData is kept, whatever the result.
HandleVerifyAndEnableResume ==
    /\ last.op = "enable2FA"
    /\ setupMessage' = Enable2FAMessage(last, now)
    /\ rejected' = IF last.success THEN rejected
                   ELSE Some(<<last.userId, setupData[1].secret,
                               setupData[1].backupCodes>>)
    /\ last' = NoCall
    /\ UNCHANGED <<now, users, currentUser, consumed, disabled, tabVars,
                   demoVars, codecVars, counterVars, authState, show2FASetup,
                   setupData>>

NextContext ==
    \/ Tick
    \/ AuthProviderMount
    \/ \E email \in Emails : ContextSignup(email)
    \/ ContextSignupResume
    \/ \E email \in Emails : ContextLogin(email)
    \/ ContextLoginResume
    \/ \E token \in Tokens : ContextVerify2FA(token)
    \/ ContextVerify2FAResume
    \/ ContextLogout
    \/ ClearPendingUser
    \/ SetShow2FASetup
    \/ CancelSetup
    \/ InitializeSetup
    \/ InitializeSetupResume
    \/ \E token \in Tokens : HandleVerifyAndEnable(token)
    \/ HandleVerifyAndEnableResume

SpecContext == InitContextSpec /\ [][NextContext]_vars

\* The operations of the AuthContext, called in any order by whatever
\* component holds the context: no page of AppContent stands between the
\* caller and them.  logout and clearPendingUser run to completion when
\* called, also while an awaited service call has not been resumed.
NextProvider ==
    \/ Tick
    \/ AuthProviderMount
    \/ \E email \in Emails : Signup(email)
    \/ ContextSignupResume
    \/ \E email \in Emails : Login(email)
    \/ ContextLoginResume
    \/ \E token \in Tokens : ProviderVerify2FA(token)
    \/ ContextVerify2FAResume
    \/ ProviderLogout
    \/ ProviderClearPendingUser

SpecProvider == InitContextSpec /\ [][NextProvider]_vars

\* --------------------------------------------------------- properties
\* The code of a secret for the window d periods from the window of time t.
CodeOf(secret, t, d) == Hotp(secret, Counter(t, Period) + d)

\* The token is the code of one of the windows lo .. hi periods from now.
InWindows(secret, token, t, lo, hi) ==
    \E d \in lo..hi : token = CodeOf(secret, t, d)

\* The stored record of the account id has no 2FA material.
Cleared(us, id) ==
    LET i == FindIndexById(us, id) IN
    i # 0 => /\ ~us[i].is2FAEnabled
             /\ us[i].twoFactorSecret = None
             /\ us[i].recoveryCodes = None

\* C1: for an account with 2FA enabled, verify2FA accepts a token that is
\* the code of a window 2 periods before to 2 periods after the current
\* one, and rejects a token that is only the code of the window 3 periods
\* before now and is none of the account's recovery codes.
C1_VerifyWindowRadius ==
    [][\A i \in 1..Len(users) :
        ( /\ last'.op = "verify2FA"
          /\ FindIndexById(users, last'.userId) = i
          /\ users[i].is2FAEnabled
          /\ users[i].twoFactorSecret # None )
        => LET secret == users[i].twoFactorSecret[1]
               token == last'.token
           IN /\ InWindows(secret, token, now, -2, 2) => last'.success
              /\ ( /\ token = CodeOf(secret, now, -3)
                   /\ ~InWindows(secret, token, now, -2, 2)
                   /\ ~IsRecoveryCode(users[i], token) )
                 => ~last'.success
      ]_vars

\* C1 witness: verify2FA has just rejected, for an enabled account, the
\* code of the window 3 periods before now.
C1_Witness ==
    /\ last.op = "verify2FA"
    /\ ~last.success
    /\ LET i == FindIndexById(users, last.userId) IN
       /\ i # 0
       /\ users[i].is2FAEnabled
       /\ users[i].twoFactorSecret # None
       /\ last.token = CodeOf(users[i].twoFactorSecret[1], now, -3)
       /\ ~InWindows(users[i].twoFactorSecret[1], last.token, now, -2, 2)

\* C2: a recovery code is single-use: once verify2FA has succeeded for an
\* account by matching recovery code R, every later verify2FA for that
\* account with token R fails unless R is the code of an accepted window,
\* until an enable2FA for the account succeeds.
C2_RecoveryCodeSingleUse ==
    [][( /\ last'.op = "verify2FA"
         /\ <<last'.userId, last'.token>> \in consumed
         /\ LET i == FindIndexById(users, last'.userId) IN
            ~( /\ i # 0
               /\ users[i].twoFactorSecret # None
               /\ InWindows(users[i].twoFactorSecret[1], last'.token, now, -2, 2) ) )
       => ~last'.success
      ]_vars

\* C2 witness: verify2FA has just rejected a recovery code that an earlier
\* verify2FA consumed, for an account that still has 2FA enabled.
C2_Witness ==
    /\ last.op = "verify2FA"
    /\ ~last.success
    /\ <<last.userId, last.token>> \in consumed
    /\ LET i == FindIndexById(users, last.userId) IN
       /\ i # 0
       /\ users[i].is2FAEnabled
       /\ users[i].twoFactorSecret # None
       /\ users[i].recoveryCodes # None
       /\ users[i].recoveryCodes[1] # <<>>

\* C4: disable2FA fails and changes neither the stored user list nor the
\* stored current user when the token is an unused recovery code of the
\* account that matches no time window; a disable2FA that succeeds was
\* given the code of a window within 2 periods of now.
C4_DisableRejectsRecoveryCode ==
    [][last'.op = "disable2FA" =>
        LET i == FindIndexById(users, last'.userId) IN
        /\ ( /\ i # 0
             /\ users[i].twoFactorSecret # None
             /\ IsRecoveryCode(users[i], last'.token)
             /\ ~InWindows(users[i].twoFactorSecret[1], last'.token, now, -2, 2) )
           => /\ ~last'.success
              /\ users' = users
              /\ currentUser' = currentUser
        /\ last'.success
           => /\ i # 0
              /\ users[i].twoFactorSecret # None
              /\ InWindows(users[i].twoFactorSecret[1], last'.token, now, -2, 2)
      ]_vars

\* C4 witness: disable2FA has just failed with a token that is one of the
\* account's recovery codes.
C4_Witness ==
    /\ last.op = "disable2FA"
    /\ ~last.success
    /\ LET i == FindIndexById(users, last.userId) IN
       /\ i # 0
       /\ users[i].twoFactorSecret # None
       /\ IsRecoveryCode(users[i], last.token)

\* C5: after disable2FA succeeds for an account its stored record has
\* is2FAEnabled false, no secret and no recovery codes, and every verify2FA
\* for that account fails, until an enable2FA for the account succeeds.
C5_DisableDiscards ==
    [][/\ (last'.op = "disable2FA" /\ last'.success)
            => /\ FindIndexById(users', last'.userId) # 0
               /\ Cleared(users', last'.userId)
       /\ \A id \in disabled' : Cleared(users', id)
       /\ (last'.op = "verify2FA" /\ last'.userId \in disabled)
            => ~last'.success
      ]_vars

\* C5 witness: verify2FA has just failed, with a token that is a code of
\* one of the secrets, for an account whose 2FA was disabled.
C5_Witness ==
    /\ last.op = "verify2FA"
    /\ last.userId \in disabled
    /\ ~last.success
    /\ \E secret \in Secrets : last.token = CodeOf(secret, now, 0)

\* C6: every stored user record has a secret and a recovery-code set
\* exactly when its is2FAEnabled flag is true.
C6_SecretIffEnabled ==
    \A i \in 1..Len(users) :
        /\ users[i].is2FAEnabled
            => (users[i].twoFactorSecret # None /\ users[i].recoveryCodes # None)
        /\ ~users[i].is2FAEnabled
            => (users[i].twoFactorSecret = None /\ users[i].recoveryCodes = None)

\* C6 witness: one account has 2FA enabled and another has had it disabled.
C6_Witness ==
    /\ \E i \in 1..Len(users) : users[i].is2FAEnabled
    /\ \E i \in 1..Len(users) : users[i].id \in disabled /\ ~users[i].is2FAEnabled

\* C7: enable2FA for an existing user succeeds when the token is the
\* candidate secret's code for the current window, and fails when the token
\* is only the code of the window two periods after now.
C7_EnableCurrentWindow ==
    [][( /\ last'.op = "enable2FA"
         /\ FindIndexById(users, last'.userId) # 0 )
       => /\ last'.token = CodeOf(last'.secret, now, 0) => last'.success
          /\ ( /\ last'.token = CodeOf(last'.secret, now, 2)
               /\ ~InWindows(last'.secret, last'.token, now, -2, 1) )
             => ~last'.success
      ]_vars

\* C7 witness: enable2FA has just failed for an existing user with the
\* code of the window two periods after now.
C7_Witness ==
    /\ last.op = "enable2FA"
    /\ ~last.success
    /\ FindIndexById(users, last.userId) # 0
    /\ last.token = CodeOf(last.secret, now, 2)
    /\ ~InWindows(last.secret, last.token, now, -2, 1)

\* C8: enable2FA accepts a token that is the candidate secret's code for
\* the window immediately preceding the current one.
C8_EnableAcceptsPreviousWindow ==
    [][( /\ last'.op = "enable2FA"
         /\ FindIndexById(users, last'.userId) # 0
         /\ last'.token = CodeOf(last'.secret, now, -1) )
       => last'.success
      ]_vars

\* C10: when enable2FA fails, the stored user list and the stored current
\* user are unchanged.
C10_EnableFailureNoChange ==
    [][(last'.op = "enable2FA" /\ ~last'.success)
       => /\ users' = users
          /\ currentUser' = currentUser
      ]_vars

\* C10 witness: enable2FA has just failed for an unknown user id although
\* the token is the candidate secret's current code, while another account
\* is stored.
C10_Witness ==
    /\ last.op = "enable2FA"
    /\ ~last.success
    /\ last.token = CodeOf(last.secret, now, 0)
    /\ FindIndexById(users, last.userId) = 0
    /\ users # <<>>

\* C3: when two verify2FA attempts for the same account submit the same
\* unused recovery code and their reads and writes of the store interleave,
\* at most one of the two reports success.
C3_OneSuccessPerRecoveryCode ==
    \A a, b \in Tabs :
        ( /\ a # b
          /\ tabs[a].pc = "done" /\ tabs[b].pc = "done"
          /\ tabs[a].recovery /\ tabs[b].recovery
          /\ tabs[a].userId = tabs[b].userId
          /\ tabs[a].token = tabs[b].token )
        => ~(tabs[a].success /\ tabs[b].success)

\* C9: handleVerification and verifyCode accept a code that is the code
\* of the 30-second window immediately before the current one.
C9_PreviousWindowAccepted ==
    [][/\ ( /\ demoLast'.op = "handleVerification"
            /\ setupSecret # None
            /\ demoLast'.code = CodeOf(setupSecret[1], now, -1) )
          => demoLast'.ok
       /\ ( /\ demoLast'.op = "handleLoginVerify"
            /\ twofa_secret # None
            /\ demoLast'.code = CodeOf(twofa_secret[1], now, -1) )
          => demoLast'.ok
      ]_vars

\* C11: setup2FA changes neither the stored user list nor the stored
\* current user, and verify2FA succeeds only on the secret or a recovery
\* code stored in the account's record, which setup2FA does not write.
C11_SetupStoresNothing ==
    [][/\ last'.op = "setup2FA"
            => /\ users' = users
               /\ currentUser' = currentUser
       /\ (last'.op = "verify2FA" /\ last'.success)
            => LET i == FindIndexById(users, last'.userId) IN
               /\ i # 0
               /\ users[i].twoFactorSecret # None
               /\ \/ InWindows(users[i].twoFactorSecret[1], last'.token, now, -2, 2)
                  \/ IsRecoveryCode(users[i], last'.token)
      ]_vars

\* C11 witness: setup2FA has just returned a secret for a stored account
\* that has no 2FA material.
C11_Witness ==
    /\ last.op = "setup2FA"
    /\ last.secret \in Secrets
    /\ LET i == FindIndexById(users, last.userId) IN
       /\ i # 0
       /\ ~users[i].is2FAEnabled
       /\ users[i].twoFactorSecret = None
       /\ users[i].recoveryCodes = None

\* C12: when enable2FA succeeds for a user, that user's stored record
\* becomes is2FAEnabled true with the submitted secret and the submitted
\* backup codes, its id and email are unchanged, and every other stored
\* record is unchanged.
C12_EnableBindsSubmitted ==
    [][\A userId \in Times, secret \in Secrets, token \in Tokens,
          backupCodes \in BackupCodeLists :
        ( /\ last'.op = "enable2FA"
          /\ last'.success
          /\ last'.userId = userId
          /\ last'.secret = secret
          /\ last'.token = token
          /\ Enable2FA(userId, secret, token, backupCodes) )
        => LET i == FindIndexById(users, userId) IN
           /\ i # 0
           /\ Len(users') = Len(users)
           /\ users'[i] = [id |-> users[i].id,
                           email |-> users[i].email,
                           is2FAEnabled |-> TRUE,
                           twoFactorSecret |-> <<secret>>,
                           recoveryCodes |-> <<backupCodes>>]
           /\ \A j \in 1..Len(users) : j # i => users'[j] = users[j]
      ]_vars

\* C12 witness: enable2FA has just succeeded for one of two stored
\* accounts, and the other account has no 2FA.
C12_Witness ==
    /\ last.op = "enable2FA"
    /\ last.success
    /\ Len(users) = 2
    /\ LET i == FindIndexById(users, last.userId) IN
       /\ i # 0
       /\ users[i].is2FAEnabled
       /\ users[i].twoFactorSecret = <<last.secret>>
       /\ \E j \in 1..Len(users) : j # i /\ ~users[j].is2FAEnabled

\* C13: verify2FA with a token that matches no accepted time window and is
\* one of the account's recovery codes succeeds, removes that code from the
\* stored set, and leaves the other recovery codes, the secret, the
\* is2FAEnabled flag and every other user's record unchanged.
C13_RecoveryCodeConsumed ==
    [][\A i \in 1..Len(users) :
        ( /\ last'.op = "verify2FA"
          /\ FindIndexById(users, last'.userId) = i
          /\ users[i].twoFactorSecret # None
          /\ ~InWindows(users[i].twoFactorSecret[1], last'.token, now, -2, 2)
          /\ IsRecoveryCode(users[i], last'.token) )
        => LET Other(code) == code # last'.token IN
           /\ last'.success
           /\ Len(users') = Len(users)
           /\ users'[i].recoveryCodes =
                  <<SelectSeq(users[i].recoveryCodes[1], Other)>>
           /\ users'[i].twoFactorSecret = users[i].twoFactorSecret
           /\ users'[i].is2FAEnabled = users[i].is2FAEnabled
           /\ users'[i].id = users[i].id
           /\ users'[i].email = users[i].email
           /\ \A j \in 1..Len(users) : j # i => users'[j] = users[j]
      ]_vars

\* C13 witness: verify2FA has just succeeded on a recovery code and a
\* different recovery code is still stored for the account.
C13_Witness ==
    /\ last.op = "verify2FA"
    /\ last.success
    /\ last.message = "Login successful with recovery code"
    /\ LET i == FindIndexById(users, last.userId) IN
       /\ i # 0
       /\ users[i].recoveryCodes # None
       /\ users[i].recoveryCodes[1] # <<>>
       /\ ~Includes(users[i].recoveryCodes[1], last.token)

\* C14: when verify2FA fails, the stored user list, with the account's
\* recovery set, and the stored current user are unchanged.
C14_VerifyFailureNoChange ==
    [][(last'.op = "verify2FA" /\ ~last'.success)
       => /\ users' = users
          /\ currentUser' = currentUser
      ]_vars

\* C14 witness: verify2FA has just failed on a wrong code for an account
\* with a secret and recovery codes, while a user is logged in.
C14_Witness ==
    /\ last.op = "verify2FA"
    /\ ~last.success
    /\ last.message = "Invalid authentication code"
    /\ currentUser # None
    /\ LET i == FindIndexById(users, last.userId) IN
       /\ i # 0
       /\ users[i].twoFactorSecret # None
       /\ users[i].recoveryCodes # None
       /\ users[i].recoveryCodes[1] # <<>>

\* C15: when two verify2FA attempts for the same account with two
\* different recovery codes interleave and both report success, neither
\* code is in the account's stored recovery set after both have finished.
C15_NoLostConsumption ==
    \A a, b \in Tabs :
        ( /\ a # b
          /\ tabs[a].pc = "done" /\ tabs[b].pc = "done"
          /\ tabs[a].recovery /\ tabs[b].recovery
          /\ tabs[a].success /\ tabs[b].success
          /\ tabs[a].userId = tabs[b].userId
          /\ tabs[a].token # tabs[b].token )
        => LET i == FindIndexById(users, tabs[a].userId) IN
           /\ i # 0
           /\ users[i].recoveryCodes # None
                => /\ ~Includes(users[i].recoveryCodes[1], tabs[a].token)
                   /\ ~Includes(users[i].recoveryCodes[1], tabs[b].token)

\* C16: once a disable2FA has succeeded for an account and every call on
\* the store has finished, the account's record has is2FAEnabled false, no
\* secret and no recovery codes, also when a verify2FA that had read the
\* user list before wrote it back afterwards.
C16_DisableNotUndone ==
    (\A tab \in Tabs : tabs[tab].pc \in {"idle", "done"})
    => \A id \in disabled :
          /\ FindIndexById(users, id) # 0
          /\ Cleared(users, id)

\* C17: for every byte string b, of a length that is a multiple of 5 or
\* not, base32Decode(base32Encode(b)) is b, with the same length.
C17_Base32RoundTrip ==
    (decoded # None /\ encoded # None /\ typed = encoded[1])
    => /\ decoded[1] = buffer
       /\ Len(decoded[1]) = Len(buffer)

\* C17 witness: a byte string of 3 bytes, no multiple of 5, with a byte
\* that has its high bit set, has been encoded and decoded unchanged.
C17_Witness ==
    /\ Len(buffer) = 3
    /\ \E k \in 1..Len(buffer) : buffer[k] > 127
    /\ encoded # None
    /\ Len(encoded[1]) = 5
    /\ typed = encoded[1]
    /\ decoded # None

\* C18: generateTOTP returns a string of exactly 6 decimal digits, padded
\* with zeros on the left, whose numeric value is at least 0 and below
\* 10^6 and is the truncated number modulo 10^6, for every digest.
C18_SixDigits ==
    totp # None
    => LET str == totp[1]
           Digit(k) == str[k] - 48
           number == Digit(1) * 100000 + Digit(2) * 10000 + Digit(3) * 1000
                     + Digit(4) * 100 + Digit(5) * 10 + Digit(6)
       IN /\ Len(str) = 6
          /\ \A k \in 1..Len(str) : str[k] \in 48..57
          /\ number \in 0..999999
          /\ number = DynamicTruncation(hmac) % 1000000

\* C18 witness: a code has been generated that starts with zeros, from a
\* digest whose truncated number is 10^6 or more.
C18_Witness ==
    /\ totp # None
    /\ Len(totp[1]) = 6
    /\ totp[1][1] = 48
    /\ totp[1][6] # 48
    /\ DynamicTruncation(hmac) >= 1000000

\* C19: base32Decode returns the same bytes for a text, for the text in
\* lower case, and for the text with characters outside A-Z2-7 inserted
\* at any positions.
C19_DecodeIgnoresCaseAndOutsiders ==
    (decoded # None /\ encoded # None)
    => decoded[1] = Base32Decode(encoded[1])

\* C20: when the account's recovery set is empty, a verify2FA whose token
\* matches no time window reports an outcome that differs from the
\* ordinary wrong-code failure.
C20_ExhaustedReportedDistinctly ==
    [][\A i \in 1..Len(users) :
        ( /\ last'.op = "verify2FA"
          /\ FindIndexById(users, last'.userId) = i
          /\ users[i].twoFactorSecret # None
          /\ users[i].recoveryCodes = <<<<>>>>
          /\ ~InWindows(users[i].twoFactorSecret[1], last'.token, now, -2, 2) )
        => last'.message # "Invalid authentication code"
      ]_vars

\* C21: every recovery set that setup2FA returns has as many codes as are
\* asked for, and they are pairwise distinct.
C21_SetupCodesDistinct ==
    [][last'.op = "setup2FA"
       => /\ Len(last'.backupCodes) = BackupLen
          /\ \A j, k \in 1..Len(last'.backupCodes) :
                j # k => last'.backupCodes[j] # last'.backupCodes[k]
      ]_vars

\* C25: when the token given to verify2FA is the code of an accepted time
\* window, the call succeeds and the stored user list, with the account's
\* recovery set, is unchanged, also when the token is one of the account's
\* recovery codes.
C25_WindowMatchKeepsRecoverySet ==
    [][\A i \in 1..Len(users) :
        ( /\ last'.op = "verify2FA"
          /\ FindIndexById(users, last'.userId) = i
          /\ users[i].twoFactorSecret # None
          /\ InWindows(users[i].twoFactorSecret[1], last'.token, now, -2, 2) )
        => /\ last'.success
           /\ users' = users
      ]_vars

\* C25 witness: verify2FA has just succeeded on a time-window match with a
\* token that is also one of the account's stored recovery codes.
C25_Witness ==
    /\ last.op = "verify2FA"
    /\ last.success
    /\ last.message = "Login successful"
    /\ LET i == FindIndexById(users, last.userId) IN
       /\ i # 0
       /\ users[i].twoFactorSecret # None
       /\ InWindows(users[i].twoFactorSecret[1], last.token, now, -2, 2)
       /\ IsRecoveryCode(users[i], last.token)

\* C29: the stored current user is set to an account whose 2FA was enabled
\* before the call only by a call whose token is the code of an accepted
\* window of the secret the account had before the call, or one of the
\* recovery codes it had before the call.
C29_SessionNeedsBoundSecret ==
    [][( /\ currentUser' # currentUser
         /\ currentUser' # None
         /\ currentUser'[1].is2FAEnabled
         /\ FindIndexById(users, currentUser'[1].id) # 0
         /\ users[FindIndexById(users, currentUser'[1].id)].is2FAEnabled
         /\ users[FindIndexById(users, currentUser'[1].id)].twoFactorSecret # None )
       => LET before == users[FindIndexById(users, currentUser'[1].id)] IN
          \/ InWindows(before.twoFactorSecret[1], last'.token, now, -2, 2)
          \/ IsRecoveryCode(before, last'.token)
      ]_vars

\* Bit k of a byte string, counted from 0 at the most significant bit of
\* the first byte; 0 past the end.
BitOf(buf, k) ==
    IF k >= 8 * Len(buf) THEN 0
    ELSE (buf[(k \div 8) + 1] \div (2 ^ (7 - (k % 8)))) % 2

\* The value of the 5-bit group g (from 0) of a byte string.
GroupOf(buf, g) ==
    BitOf(buf, 5 * g) * 16 + BitOf(buf, 5 * g + 1) * 8
    + BitOf(buf, 5 * g + 2) * 4 + BitOf(buf, 5 * g + 3) * 2
    + BitOf(buf, 5 * g + 4)

\* C26: for a byte string of n bytes base32Encode returns ceil(8n/5)
\* characters of the alphabet A-Z2-7, the character at each position
\* being that of the next 5-bit group of the input, most significant bit
\* first, the last group padded with zero bits; also for more than 4
\* bytes.
C26_EncodeGroups ==
    encoded # None
    => LET n == Len(buffer)
           text == encoded[1]
       IN /\ Len(text) = (8 * n + 4) \div 5
          /\ \A g \in 1..Len(text) :
                /\ \E k \in 1..32 : Alphabet[k] = text[g]
                /\ text[g] = Alphabet[GroupOf(buffer, g - 1) + 1]

\* C26 witness: a byte string of 5 bytes that starts with a byte other
\* than 0 has been encoded into 8 characters.
C26_Witness ==
    /\ Len(buffer) = 5
    /\ buffer[1] # 0
    /\ buffer[5] # 0
    /\ encoded # None
    /\ Len(encoded[1]) = 8

\* C28: for every digest, the dynamic truncation of generateTOTP reads
\* indices inside the digest only, the offset being the low 4 bits of the
\* last byte, and yields the big-endian value of the 4 bytes at the offset
\* with the top bit of the first one cleared, which is at least 0 and
\* below 2^31.
C28_DynamicTruncation ==
    totp # None
    => LET offset == hmac[Len(hmac)] % 16
           first == IF hmac[offset + 1] >= 128 THEN hmac[offset + 1] - 128
                    ELSE hmac[offset + 1]
           value == ((first * 256 + hmac[offset + 2]) * 256
                        + hmac[offset + 3]) * 256 + hmac[offset + 4]
       IN /\ Len(hmac) = 20
          /\ offset + 3 <= 18
          /\ \A k \in 0..3 : offset + k + 1 \in DOMAIN hmac
          /\ DynamicTruncation(hmac) = value
          /\ DynamicTruncation(hmac) \in 0..2147483647
          /\ totp[1] = CodeOfDigest(hmac)

\* C28 witness: a code has been generated from a digest whose offset is
\* 15 and whose first byte at the offset has its top bit set.
C28_Witness ==
    /\ totp # None
    /\ hmac[Len(hmac)] % 16 = 15
    /\ hmac[Len(hmac)] \div 16 # 15
    /\ hmac[16] >= 128
    /\ hmac[19] # 0

\* The counter as an unsigned 64-bit integer, big-endian: 8 bytes.
BigEndian64(limbs) ==
    LET limb(k) == IF k <= Len(limbs) THEN limbs[k] ELSE 0 IN
    [i \in 1..8 |->
        IF i % 2 = 1 THEN limb(4 - (i - 1) \div 2) \div 256
        ELSE limb(4 - (i - 1) \div 2) % 256]

\* C27: for every non-negative clock value, the 8-byte message that
\* generateTOTP passes to the HMAC is the big-endian unsigned 64-bit
\* encoding of the counter floor(unixSeconds / period).
C27_MessageIsCounter64 ==
    timeBuffer # None =>
        timeBuffer[1] = BigEndian64(FloorDiv(clock, Period))

\* The account of a finished call, if it has 2FA set up.
HasSecret(us, id) ==
    LET i == FindIndexById(us, id) IN
    i # 0 /\ us[i].twoFactorSecret # None

\* The token is in the stored recovery set of the account id.
StoredCode(us, id, token) ==
    LET i == FindIndexById(us, id) IN
    /\ i # 0
    /\ us[i].recoveryCodes # None
    /\ \E k \in 1..Len(us[i].recoveryCodes[1]) :
          us[i].recoveryCodes[1][k] = token

\* C22: a wrong code or an already used recovery code is never raised as
\* an exception: verify2FA, enable2FA and disable2FA return a result with
\* success false, and TwoFAUtils.verifyCode returns false, also when no
\* secret is stored or the TOTP computation itself fails.
C22_WrongCodeIsResult ==
    [][ /\ (last = NoCall /\ last'.op = "verify2FA"
            /\ HasSecret(users, last'.userId)
            /\ ~InWindows(users[FindIndexById(users, last'.userId)]
                              .twoFactorSecret[1],
                          last'.token, now, 0 - VerifyWindow, VerifyWindow)
            /\ \/ ~StoredCode(users, last'.userId, last'.token)
               \/ <<last'.userId, last'.token>> \in consumed)
           => /\ ~last'.success
              /\ last'.message = "Invalid authentication code"
        /\ (last = NoCall /\ last'.op = "enable2FA"
            /\ ~InWindows(last'.secret, last'.token, now, 0, 0))
           => ~last'.success
        /\ (last = NoCall /\ last'.op = "disable2FA"
            /\ HasSecret(users, last'.userId)
            /\ ~InWindows(users[FindIndexById(users, last'.userId)]
                              .twoFactorSecret[1],
                          last'.token, now, 0 - VerifyWindow, VerifyWindow))
           => ~last'.success
        /\ (demoLast = NoDemoCall /\ demoLast'.op = "verifyCode")
           => /\ ~demoLast'.threw
              /\ (\/ twofa_secret = None
                  \/ demoLast'.failed
                  \/ demoLast'.code # CodeOf(twofa_secret[1], now, 0))
                 => ~demoLast'.ok
      ]_vars

\* A recovery code that verify2FA has consumed is presented again and the
\* call returns a failure, while a verifyCode whose TOTP computation
\* failed, with a secret stored, has returned false.
C22_Witness ==
    /\ last.op = "verify2FA"
    /\ <<last.userId, last.token>> \in consumed
    /\ ~last.success
    /\ demoLast.op = "verifyCode"
    /\ twofa_secret # None
    /\ demoLast.failed
    /\ ~demoLast.ok
    /\ ~demoLast.threw

\* C23: after an enable2FA attempt fails for a candidate secret, that
\* candidate is discarded: a later enable2FA call with the same candidate
\* secret and recovery codes does not bind them to the account, even with
\* a code that is valid at that later time.
C23_FailedCandidateDiscarded ==
    [][ (/\ last = NoCall
         /\ last'.op = "enable2FA"
         /\ last'.success
         /\ setupData # None)
        => rejected # Some(<<last'.userId, setupData[1].secret,
                             setupData[1].backupCodes>>)
      ]_vars

\* C30: login for an account with 2FA enabled never sets the stored
\* current user and never makes the AuthContext authenticated: it only
\* sets requiresTwoFactor and pendingUser, and the context's user becomes
\* that account only after a later verify2FA for the pending user
\* succeeds.
C30_LoginNeedsSecondFactor ==
    [][ /\ (/\ last = NoCall
            /\ last'.op = "login"
            /\ last'.success
            /\ last'.user[1].is2FAEnabled)
           => /\ currentUser' = currentUser
              /\ authState' = authState
        /\ (/\ last.op = "login"
            /\ last.success
            /\ last.user[1].is2FAEnabled
            /\ last' = NoCall)
           => /\ currentUser' = currentUser
              /\ authState'.user = authState.user
              /\ authState'.isAuthenticated = authState.isAuthenticated
              /\ authState'.requiresTwoFactor
              /\ authState'.pendingUser = last.user
        /\ (/\ ~authState.isAuthenticated
            /\ authState'.isAuthenticated
            /\ authState'.user[1].is2FAEnabled)
           => /\ last.op = "verify2FA"
              /\ last.success
              /\ authState.pendingUser # None
              /\ last.userId = authState.pendingUser[1].id
              /\ authState'.user[1].id = last.userId
      ]_vars

\* After its login the account with 2FA enabled is pending and nobody is
\* authenticated; the pending user's verify2FA has just succeeded and set
\* the stored current user, and the context is about to take the result.
C30_Witness ==
    /\ authState.requiresTwoFactor
    /\ ~authState.isAuthenticated
    /\ authState.user = None
    /\ authState.pendingUser # None
    /\ authState.pendingUser[1].is2FAEnabled
    /\ last.op = "verify2FA"
    /\ last.userId = authState.pendingUser[1].id
    /\ last.success
    /\ currentUser # None

\* C32: whenever the AuthContext has isAuthenticated true with user U, the
\* stored current user is non-null and has U's id, so that a page reload
\* restores the same authenticated user; after signup as well as after
\* login and verify2FA.
C32_AuthenticatedIsStored ==
    (last = NoCall /\ authState.isAuthenticated)
        => /\ authState.user # None
           /\ currentUser # None
           /\ currentUser[1].id = authState.user[1].id

\* C34: the stored current user, when set, equals the record with the same
\* id in the stored user list: same is2FAEnabled flag, secret and recovery
\* set.
C34_CurrentUserIsStoredRecord ==
    currentUser # None
        => /\ FindIndexById(users, currentUser[1].id) # 0
           /\ LET stored == UserById(users, currentUser[1].id) IN
                 /\ stored.is2FAEnabled = currentUser[1].is2FAEnabled
                 /\ stored.twoFactorSecret = currentUser[1].twoFactorSecret
                 /\ stored.recoveryCodes = currentUser[1].recoveryCodes

\* C35: after any sequence of successful signups every stored user has a
\* distinct id, also when two signups with different emails happen without
\* the clock advancing between them.
C35_DistinctIds ==
    \A i, j \in 1..Len(users) : i # j => users[i].id # users[j].id

\* C31: after any sequence of the AuthContext operations signup, login,
\* verify2FA, logout and clearPendingUser, pendingUser is non-null exactly
\* when requiresTwoFactor is true, and requiresTwoFactor is never true
\* while isAuthenticated is true.
C31_PendingIffRequired ==
    last = NoCall
        => /\ (authState.pendingUser # None) <=> authState.requiresTwoFactor
           /\ ~(authState.requiresTwoFactor /\ authState.isAuthenticated)

\* C33: a verify2FA that is still in flight does not authenticate a
\* session that was abandoned meanwhile: if clearPendingUser or logout ran
\* after AuthContext.verify2FA started and before it applies its result,
\* then afterwards isAuthenticated is false, user is null and the stored
\* current user is unset.  The call starts only with a pending user, so a
\* call in flight with no pending user is one that was abandoned.
C33_AbandonedNotAuthenticated ==
    [][ (/\ last.op = "verify2FA"
         /\ authState.pendingUser = None
         /\ ~authState.isAuthenticated
         /\ last' = NoCall)
        => /\ ~authState'.isAuthenticated
           /\ authState'.user = None
           /\ currentUser' = None
      ]_vars

\* C36: in the demo route a secret is written to storage only after
\* TwoFASetup.handleVerification matched the submitted code against that
\* secret, and in every reachable state isLoggedIn implies that a secret
\* is stored and that a verifyCode call succeeded since the last logout or
\* disable: isLoggedIn becomes true only by such a call.
C36_DemoStoresAndLogsInVerified ==
    [][ /\ (twofa_secret' # twofa_secret /\ twofa_secret' # None)
           => /\ demoLast'.op = "handleVerification"
              /\ setupSecret = twofa_secret'
              /\ CodeLength(verificationCode) = 6
              /\ verificationCode = CodeOf(setupSecret[1], now, 0)
        /\ (isLoggedIn' /\ ~isLoggedIn)
           => /\ demoLast'.op = "handleLoginVerify"
              /\ demoLast'.ok
              /\ twofa_secret # None
              /\ loginCode = CodeOf(twofa_secret[1], now, 0)
        /\ isLoggedIn' => twofa_secret' # None
      ]_vars

\* A secret is stored and the login dialog has just accepted its code.
C36_Witness ==
    /\ isLoggedIn
    /\ twofa_secret # None
    /\ demoLast.op = "handleLoginVerify"
    /\ demoLast.ok
    /\ demoLast.code = CodeOf(twofa_secret[1], now, 0)

\* C37: after any sequence of TwoFAUtils.saveSecret and TwoFAUtils.disable
\* calls in a browser, the key twofa_secret is present exactly when the
\* key twofa_enabled is present, isEnabled() is true exactly in that case,
\* and after disable verifyCode returns false for every code.
C37_KeysTogether ==
    [][ /\ (twofa_secret' # None) <=> (twofa_enabled' # None)
        /\ IsEnabled' <=> (twofa_secret' # None /\ twofa_enabled' # None)
        /\ (/\ demoLast = NoDemoCall
            /\ demoLast'.op = "verifyCode"
            /\ twofa_secret = None
            /\ twofa_enabled = None)
           => /\ ~demoLast'.ok
              /\ ~demoLast'.threw
      ]_vars

\* disable has just removed a secret that saveSecret had stored: both keys
\* are absent.
C37_Witness ==
    /\ demoLast.op = "disable"
    /\ demoLast.removed # None
    /\ twofa_secret = None
    /\ twofa_enabled = None
    /\ ~IsEnabled

=============================================================================
